---- MODULE Spec2Model ----
(***************************************************************************)
(* Red King: the authoritative game-session core.                          *)
(*                                                                         *)
(* The state is the room registry of roomManager.js (rooms, playerRoomMap) *)
(* and every room's gameState.  The operators of the first half are the    *)
(* functions of roomManager.js, each returning the room as the function    *)
(* leaves it together with what the function returns; the actions of the   *)
(* second half are the socket handlers of socketHandlers.js.               *)
(*                                                                         *)
(* Indices (turnIndex, redemptionIndex, handIndex) are 0-based as in the   *)
(* source; At(seq, i) reads the JavaScript element seq[i].                 *)
(***************************************************************************)
EXTENDS Integers, Sequences, FiniteSets, TLC

\* ---------------------------------------------------------------- bounds
\* Connection (socket) ids are 1..NumConns.
NumConns == 3
\* Room codes are 1..NumCodes (generateRoomCode draws from 32^4 codes).
NumCodes == 1
\* How many outcomes of shuffleDeck a start-game may draw from.
NumShuffles == 1
\* How many state-changing commands a behaviour from Init holds.
MaxSteps == 5
\* How many state-changing commands a behaviour from MidInit holds.
MidSteps == 3

\* Player names a lobby client may send.
NumNames == 2
\* Commands that change the state, from a lobby.
LobbySteps == 5
\* The room codes a lobby behaviour draws from.
NumLobbyCodes == 2
\* Commands that change the state, from a discarded rule card.
RuleSteps == 3

\* Commands that change the state, from a dealt game whose Red King is called.
RevealSteps == 3

\* ------------------------------------------------------- program constants
DeckSize == 54
HandSize == 4
MaxPlayers == 8

\* JavaScript null / undefined.
Null == 0

Conns == 1..NumConns
Codes == 1..NumCodes

\* Slot indices a client sends: in range, and out of range on both sides.
HandIndices == {-1, 0, 1, 9}

\* Slot indices of the commands that name two slots.
PairIndices == {0, 1, 9}

\* ------------------------------------------------------------------ cards
\* createDeck: ids 1..52 are suit-major (hearts, diamonds, clubs, spades),
\* rank-minor (A, 2..10, J, Q, K); 53 and 54 are joker-1 and joker-2.
createDeck == [i \in 1..DeckSize |-> i]

Cards == 1..DeckSize

suit(card) ==
    IF card > 52 THEN "joker"
    ELSE CASE (card - 1) \div 13 = 0 -> "hearts"
           [] (card - 1) \div 13 = 1 -> "diamonds"
           [] (card - 1) \div 13 = 2 -> "clubs"
           [] OTHER -> "spades"

\* Ranks as numbers: A = 1, 2..10, J = 11, Q = 12, K = 13, Joker = 14.
rank(card) == IF card > 52 THEN 14 ELSE ((card - 1) % 13) + 1

Card(s, r) ==
    CASE s = "hearts" -> r
      [] s = "diamonds" -> 13 + r
      [] s = "clubs" -> 26 + r
      [] s = "spades" -> 39 + r

\* A faulty getCardPoints: every King counts 10.
getCardPointsKingsAlike(card) ==
    IF suit(card) = "joker" THEN 0
    ELSE IF rank(card) = 1 THEN 1
    ELSE IF rank(card) \in {11, 12, 13} THEN 10
    ELSE rank(card)

getCardPoints(card) ==
    IF suit(card) = "joker" THEN 0
    ELSE IF rank(card) = 1 THEN 1
    ELSE IF rank(card) = 13 /\ suit(card) \in {"hearts", "diamonds"} THEN -1
    ELSE IF rank(card) = 13 THEN 10
    ELSE IF rank(card) \in {11, 12} THEN 10
    ELSE rank(card)

canUseRule(card) ==
    IF card = Null THEN FALSE
    ELSE IF rank(card) >= 7 /\ rank(card) <= 10 THEN TRUE
    ELSE rank(card) \in {11, 12, 13}

getRuleType(card) ==
    IF card = Null THEN "none"
    ELSE IF rank(card) \in {7, 8} THEN "peek-own"
    ELSE IF rank(card) \in {9, 10} THEN "peek-other"
    ELSE IF rank(card) \in {11, 12} THEN "blind-switch"
    ELSE IF rank(card) = 13 /\ suit(card) \in {"clubs", "spades"} THEN "black-king"
    ELSE "none"

\* ---------------------------------------------------------------- helpers
\* seq[i] of JavaScript: undefined outside the array.
At(seq, i) == IF i >= 0 /\ i < Len(seq) THEN seq[i + 1] ELSE Null

SetAt(seq, i, v) == [seq EXCEPT ![i + 1] = v]

Range(seq) == {seq[i] : i \in 1..Len(seq)}

\* Array.prototype.filter.
RECURSIVE Filter(_, _)
Filter(seq, keep) ==
    IF seq = <<>> THEN <<>>
    ELSE IF Head(seq) \in keep THEN <<Head(seq)>> \o Filter(Tail(seq), keep)
    ELSE Filter(Tail(seq), keep)

\* Array.prototype.indexOf, 0-based, -1 when absent.
RECURSIVE IndexFrom(_, _, _)
IndexFrom(seq, v, i) ==
    IF i >= Len(seq) THEN -1
    ELSE IF seq[i + 1] = v THEN i
    ELSE IndexFrom(seq, v, i + 1)

IndexOf(seq, v) == IndexFrom(seq, v, 0)

\* The card ids a sequence of slots holds, gaps left out, as a bag count.
RECURSIVE CountIn(_, _)
CountIn(seq, card) ==
    IF seq = <<>> THEN 0
    ELSE (IF Head(seq) = card THEN 1 ELSE 0) + CountIn(Tail(seq), card)

\* ---------------------------------------------------------------- shuffle
\* shuffleDeck is a uniform Fisher-Yates permutation of createDeck.  The model
\* draws from NumShuffles of its outcomes: outcome k puts `front` first (the
\* host's hand starts there), `back` last (drawCard pops from the end) and the
\* other cards in createDeck order between them.  The first card drawn has the
\* rank of the host's slot 0 and of the second player's slot 0, and no rule;
\* the second card drawn is a rule card.
ShuffleFront(k) ==
    <<Card("hearts", 4 + k), Card("diamonds", 5 + k), Card("hearts", 1),
      Card("hearts", 2), Card("spades", 4 + k)>>

ShuffleBack(k) == <<Card("spades", 6 + k), Card("clubs", 4 + k)>>

shuffleDeck(k) ==
    LET front == ShuffleFront(k)
        back == ShuffleBack(k)
        rest == Filter(createDeck, Cards \ (Range(front) \cup Range(back)))
    IN front \o rest \o back

Shuffles == 1..NumShuffles


\* ------------------------------------------------------------- roomManager
\* room.gameState before dealCards and after clearGameState (null).
NoGame == [phase |-> "none"]

\* What getRoomBySocketId and leaveRoom return for "no room" (null).
NoRoom == [code |-> Null]

\* Map.prototype.set and Map.prototype.delete.
MapSet(m, k, v) == [x \in (DOMAIN m) \cup {k} |-> IF x = k THEN v ELSE m[x]]

MapDelete(m, k) == [x \in (DOMAIN m) \ {k} |-> m[x]]

PlayerIds(room) == [i \in 1..Len(room.players) |-> room.players[i].id]

\* A function's result: the room as the function leaves it, and whether the
\* function returned a value (ok) or null.
Ret(room, ok) == [room |-> room, ok |-> ok]

createRoom(reg, code, hostSocketId, hostName) ==
    LET room == [code |-> code,
                 hostId |-> hostSocketId,
                 players |-> <<[id |-> hostSocketId, name |-> hostName, isHost |-> TRUE]>>,
                 state |-> "waiting",
                 gameState |-> NoGame]
    IN [rooms |-> MapSet(reg.rooms, code, room),
        playerRoomMap |-> MapSet(reg.playerRoomMap, hostSocketId, code)]

\* A faulty joinError: a room is full with more than 8 players.
joinErrorFullAtNine(reg, code, socketId, playerName) ==
    IF code \notin DOMAIN reg.rooms THEN "Room not found"
    ELSE LET room == reg.rooms[code] IN
         IF room.state = "playing" THEN "Game is already in progress"
         ELSE IF Len(room.players) > MaxPlayers THEN "Room is full"
         ELSE IF \E i \in 1..Len(room.players) : room.players[i].name = playerName
              THEN "Name already taken in this room"
         ELSE IF \E i \in 1..Len(room.players) : room.players[i].id = socketId
              THEN "You are already in this room"
         ELSE ""

\* The error joinRoom reports, "" on success.
joinError(reg, code, socketId, playerName) ==
    IF code \notin DOMAIN reg.rooms THEN "Room not found"
    ELSE LET room == reg.rooms[code] IN
         IF room.state = "playing" THEN "Game is already in progress"
         ELSE IF Len(room.players) >= MaxPlayers THEN "Room is full"
         ELSE IF \E i \in 1..Len(room.players) : room.players[i].name = playerName
              THEN "Name already taken in this room"
         ELSE IF \E i \in 1..Len(room.players) : room.players[i].id = socketId
              THEN "You are already in this room"
         ELSE ""

joinRoom(reg, code, socketId, playerName) ==
    IF joinError(reg, code, socketId, playerName) # "" THEN reg
    ELSE LET room == reg.rooms[code]
             joined == [room EXCEPT !.players =
                            Append(@, [id |-> socketId, name |-> playerName, isHost |-> FALSE])]
         IN [rooms |-> MapSet(reg.rooms, code, joined),
             playerRoomMap |-> MapSet(reg.playerRoomMap, socketId, code)]

\* A faulty clean-up of a leave: the peek-done of the player who left stays.
leaveGameStateKeepingPeekDone(gs, socketId) ==
    IF gs = NoGame THEN gs
    ELSE LET order == Filter(gs.turnOrder, Range(gs.turnOrder) \ {socketId})
         IN [gs EXCEPT !.hands = MapDelete(@, socketId),
                       !.turnOrder = order,
                       !.turnIndex = IF @ >= Len(order) THEN 0 ELSE @]

\* A faulty clean-up of a leave: turnIndex stays where it was.
leaveGameStateUnclamped(gs, socketId) ==
    IF gs = NoGame THEN gs
    ELSE LET order == Filter(gs.turnOrder, Range(gs.turnOrder) \ {socketId})
         IN [gs EXCEPT !.hands = MapDelete(@, socketId),
                       !.peekDone = @ \ {socketId},
                       !.turnOrder = order]

\* The mid-game clean-up of leaveRoom: the hand, the peekDone entry, turnOrder.
leaveGameState(gs, socketId) ==
    IF gs = NoGame THEN gs
    ELSE LET order == Filter(gs.turnOrder, Range(gs.turnOrder) \ {socketId})
         IN [gs EXCEPT !.hands = MapDelete(@, socketId),
                       !.peekDone = @ \ {socketId},
                       !.turnOrder = order,
                       !.turnIndex = IF @ >= Len(order) THEN 0 ELSE @]

\* leaveRoom returns {room, wasHost, isEmpty}; reg is the registry it leaves.
leaveRoom(reg, socketId) ==
    IF socketId \notin DOMAIN reg.playerRoomMap
    THEN [reg |-> reg, room |-> NoRoom, wasHost |-> FALSE, isEmpty |-> TRUE]
    ELSE
    LET code == reg.playerRoomMap[socketId]
        unmapped == MapDelete(reg.playerRoomMap, socketId)
    IN
    IF code \notin DOMAIN reg.rooms
    THEN [reg |-> [reg EXCEPT !.playerRoomMap = unmapped],
          room |-> NoRoom, wasHost |-> FALSE, isEmpty |-> TRUE]
    ELSE
    LET room == reg.rooms[code]
        playerIndex == IndexOf(PlayerIds(room), socketId)
    IN
    IF playerIndex = -1
    THEN [reg |-> [reg EXCEPT !.playerRoomMap = unmapped],
          room |-> room, wasHost |-> FALSE, isEmpty |-> Len(room.players) = 0]
    ELSE
    LET wasHost == room.players[playerIndex + 1].isHost
        remaining == [i \in 1..(Len(room.players) - 1) |->
                         IF i <= playerIndex THEN room.players[i] ELSE room.players[i + 1]]
    IN
    IF Len(remaining) = 0
    THEN [reg |-> [rooms |-> MapDelete(reg.rooms, code), playerRoomMap |-> unmapped],
          room |-> NoRoom, wasHost |-> wasHost, isEmpty |-> TRUE]
    ELSE
    LET hosted == IF wasHost
                  THEN [remaining EXCEPT ![1] = [@ EXCEPT !.isHost = TRUE]]
                  ELSE remaining
        left == [room EXCEPT !.players = hosted,
                             !.hostId = IF wasHost THEN hosted[1].id ELSE @,
                             !.gameState = leaveGameState(@, socketId)]
    IN [reg |-> [rooms |-> MapSet(reg.rooms, code, left), playerRoomMap |-> unmapped],
        room |-> left, wasHost |-> wasHost, isEmpty |-> FALSE]

getRoomBySocketId(reg, socketId) ==
    IF socketId \notin DOMAIN reg.playerRoomMap THEN NoRoom
    ELSE IF reg.playerRoomMap[socketId] \notin DOMAIN reg.rooms THEN NoRoom
    ELSE reg.rooms[reg.playerRoomMap[socketId]]

setRoomState(room, state) == [room EXCEPT !.state = state]

\* A faulty rotation: turnOrder.unshift(turnOrder.pop()), the wrong way round.
rotateTurnOrderBackwards(ids) ==
    IF Len(ids) > 1 THEN <<ids[Len(ids)]>> \o SubSeq(ids, 1, Len(ids) - 1) ELSE ids

\* turnOrder.push(turnOrder.shift()) when there are at least two players.
rotateTurnOrder(ids) == IF Len(ids) > 1 THEN Tail(ids) \o <<Head(ids)>> ELSE ids

\* dealCards with `deck` the outcome of shuffleDeck(createDeck()): each player
\* in room order takes deck.splice(0, 4).  The fields callRedKing adds later
\* (redKingCaller, redemptionOrder, redemptionIndex) are undefined until then.
dealCards(room, deck) ==
    LET ids == PlayerIds(room)
        n == Len(ids)
    IN [room EXCEPT !.gameState =
           [deck |-> SubSeq(deck, HandSize * n + 1, Len(deck)),
            hands |-> [p \in Range(ids) |->
                          SubSeq(deck, HandSize * IndexOf(ids, p) + 1,
                                       HandSize * IndexOf(ids, p) + HandSize)],
            phase |-> "peek",
            peekDone |-> {},
            turnOrder |-> rotateTurnOrder(ids),
            turnIndex |-> 0,
            discardPile |-> <<>>,
            drawnCard |-> Null,
            drawnBy |-> Null,
            redKingCaller |-> Null,
            redemptionOrder |-> <<>>,
            redemptionIndex |-> 0]]

clearGameState(room) == [room EXCEPT !.gameState = NoGame]

\* redemptionOrder is defined exactly when callRedKing has set redKingCaller.
getCurrentTurnPlayer(room) ==
    LET gs == room.gameState IN
    IF gs = NoGame THEN Null
    ELSE IF gs.phase = "redemption" /\ gs.redKingCaller # Null
         THEN At(gs.redemptionOrder, gs.redemptionIndex)
    ELSE At(gs.turnOrder, gs.turnIndex)

drawCard(room, playerId) ==
    LET gs == room.gameState IN
    IF gs = NoGame THEN Ret(room, FALSE)
    ELSE IF getCurrentTurnPlayer(room) # playerId THEN Ret(room, FALSE)
    ELSE IF gs.drawnCard # Null THEN Ret(room, FALSE)
    ELSE IF Len(gs.deck) = 0 THEN Ret(room, FALSE)
    ELSE Ret([room EXCEPT !.gameState =
                 [gs EXCEPT !.deck = SubSeq(@, 1, Len(@) - 1),
                            !.drawnCard = gs.deck[Len(gs.deck)],
                            !.drawnBy = playerId]], TRUE)

\* A faulty keepCard: without the check for an empty slot.
keepCardIntoGap(room, playerId, handIndex) ==
    LET gs == room.gameState IN
    IF gs = NoGame THEN Ret(room, FALSE)
    ELSE IF gs.drawnBy # playerId THEN Ret(room, FALSE)
    ELSE IF gs.drawnCard = Null THEN Ret(room, FALSE)
    ELSE IF playerId \notin DOMAIN gs.hands THEN Ret(room, FALSE)
    ELSE IF handIndex < 0 \/ handIndex >= Len(gs.hands[playerId]) THEN Ret(room, FALSE)
    ELSE Ret([room EXCEPT !.gameState =
                 [gs EXCEPT !.hands[playerId] = SetAt(@, handIndex, gs.drawnCard),
                            !.discardPile = Append(@, At(gs.hands[playerId], handIndex)),
                            !.drawnCard = Null,
                            !.drawnBy = Null]], TRUE)

keepCard(room, playerId, handIndex) ==
    LET gs == room.gameState IN
    IF gs = NoGame THEN Ret(room, FALSE)
    ELSE IF gs.drawnBy # playerId THEN Ret(room, FALSE)
    ELSE IF gs.drawnCard = Null THEN Ret(room, FALSE)
    ELSE IF playerId \notin DOMAIN gs.hands THEN Ret(room, FALSE)
    ELSE IF handIndex < 0 \/ handIndex >= Len(gs.hands[playerId]) THEN Ret(room, FALSE)
    ELSE IF At(gs.hands[playerId], handIndex) = Null THEN Ret(room, FALSE)
    ELSE Ret([room EXCEPT !.gameState =
                 [gs EXCEPT !.hands[playerId] = SetAt(@, handIndex, gs.drawnCard),
                            !.discardPile = Append(@, At(gs.hands[playerId], handIndex)),
                            !.drawnCard = Null,
                            !.drawnBy = Null]], TRUE)

discardDrawnCard(room, playerId) ==
    LET gs == room.gameState IN
    IF gs = NoGame THEN Ret(room, FALSE)
    ELSE IF gs.drawnBy # playerId THEN Ret(room, FALSE)
    ELSE IF gs.drawnCard = Null THEN Ret(room, FALSE)
    ELSE Ret([room EXCEPT !.gameState =
                 [gs EXCEPT !.discardPile = Append(@, gs.drawnCard),
                            !.drawnCard = Null,
                            !.drawnBy = Null]], TRUE)

\* peekOwnCard and peekOtherCard: the card at the slot, null for no hand, an
\* index out of range or a gap.  Neither writes.
peekOwnCard(room, playerId, handIndex) ==
    LET gs == room.gameState IN
    IF gs = NoGame THEN Null
    ELSE IF playerId \notin DOMAIN gs.hands THEN Null
    ELSE IF handIndex < 0 \/ handIndex >= Len(gs.hands[playerId]) THEN Null
    ELSE At(gs.hands[playerId], handIndex)

peekOtherCard(room, targetPlayerId, handIndex) ==
    LET gs == room.gameState IN
    IF gs = NoGame THEN Null
    ELSE IF targetPlayerId \notin DOMAIN gs.hands THEN Null
    ELSE IF handIndex < 0 \/ handIndex >= Len(gs.hands[targetPlayerId]) THEN Null
    ELSE At(gs.hands[targetPlayerId], handIndex)

\* A faulty blindSwitch: it keeps no temp, so the second write puts back the
\* card the first write has just stored.
blindSwitchWithoutTemp(room, playerAId, indexA, playerBId, indexB) ==
    LET gs == room.gameState IN
    IF gs = NoGame THEN Ret(room, FALSE)
    ELSE IF playerAId \notin DOMAIN gs.hands \/ playerBId \notin DOMAIN gs.hands
         THEN Ret(room, FALSE)
    ELSE IF indexA < 0 \/ indexA >= Len(gs.hands[playerAId]) THEN Ret(room, FALSE)
    ELSE IF indexB < 0 \/ indexB >= Len(gs.hands[playerBId]) THEN Ret(room, FALSE)
    ELSE IF At(gs.hands[playerAId], indexA) = Null \/ At(gs.hands[playerBId], indexB) = Null
         THEN Ret(room, FALSE)
    ELSE LET first == [gs.hands EXCEPT ![playerAId] =
                          SetAt(@, indexA, At(gs.hands[playerBId], indexB))]
             second == [first EXCEPT ![playerBId] =
                           SetAt(@, indexB, At(first[playerAId], indexA))]
         IN Ret([room EXCEPT !.gameState = [gs EXCEPT !.hands = second]], TRUE)

\* handA and handB are the same array when playerAId = playerBId: the second
\* write is made to the hand the first write left.
blindSwitch(room, playerAId, indexA, playerBId, indexB) ==
    LET gs == room.gameState IN
    IF gs = NoGame THEN Ret(room, FALSE)
    ELSE IF playerAId \notin DOMAIN gs.hands \/ playerBId \notin DOMAIN gs.hands
         THEN Ret(room, FALSE)
    ELSE IF indexA < 0 \/ indexA >= Len(gs.hands[playerAId]) THEN Ret(room, FALSE)
    ELSE IF indexB < 0 \/ indexB >= Len(gs.hands[playerBId]) THEN Ret(room, FALSE)
    ELSE IF At(gs.hands[playerAId], indexA) = Null \/ At(gs.hands[playerBId], indexB) = Null
         THEN Ret(room, FALSE)
    ELSE LET temp == At(gs.hands[playerAId], indexA)
             first == [gs.hands EXCEPT ![playerAId] =
                          SetAt(@, indexA, At(gs.hands[playerBId], indexB))]
             second == [first EXCEPT ![playerBId] = SetAt(@, indexB, temp)]
         IN Ret([room EXCEPT !.gameState = [gs EXCEPT !.hands = second]], TRUE)

\* blackKingPeek returns both cards or null; ok says which.  It never writes.
blackKingPeek(room, targetPlayerId1, index1, targetPlayerId2, index2) ==
    LET gs == room.gameState IN
    IF gs = NoGame THEN FALSE
    ELSE IF targetPlayerId1 \notin DOMAIN gs.hands \/ targetPlayerId2 \notin DOMAIN gs.hands
         THEN FALSE
    ELSE IF index1 < 0 \/ index1 >= Len(gs.hands[targetPlayerId1]) THEN FALSE
    ELSE IF index2 < 0 \/ index2 >= Len(gs.hands[targetPlayerId2]) THEN FALSE
    ELSE At(gs.hands[targetPlayerId1], index1) # Null
         /\ At(gs.hands[targetPlayerId2], index2) # Null

\* addCardToHand: the first gap if there is one, else the end.
addCardToHand(hand, card) ==
    IF IndexOf(hand, Null) # -1 THEN SetAt(hand, IndexOf(hand, Null), card)
    ELSE Append(hand, card)

\* A faulty step of the turn: it passes over the next player.
nextTurnIndexSkipping(turnIndex, length) == (turnIndex + 2) % length

nextTurnIndex(turnIndex, length) == (turnIndex + 1) % length

advanceTurn(room) ==
    LET gs == room.gameState IN
    IF gs = NoGame THEN room
    ELSE IF Len(gs.turnOrder) = 0 THEN room
    ELSE [room EXCEPT !.gameState =
             [gs EXCEPT !.turnIndex = nextTurnIndex(@, Len(gs.turnOrder)),
                        !.drawnCard = Null,
                        !.drawnBy = Null]]

getTopDiscard(room) ==
    LET gs == room.gameState IN
    IF gs = NoGame THEN Null
    ELSE IF Len(gs.discardPile) > 0 THEN gs.discardPile[Len(gs.discardPile)]
    ELSE Null

cardsMatchByRank(cardA, cardB) ==
    IF cardA = Null \/ cardB = Null THEN FALSE ELSE rank(cardA) = rank(cardB)

\* callMatchOwn: a rank match leaves a gap and discards the card; a wrong call
\* takes a penalty card from the end of the deck, if the deck has one.
callMatchOwn(room, callerId, handIndex) ==
    LET gs == room.gameState
        topDiscard == getTopDiscard(room)
    IN
    IF gs = NoGame THEN Ret(room, FALSE)
    ELSE IF topDiscard = Null THEN Ret(room, FALSE)
    ELSE IF callerId \notin DOMAIN gs.hands THEN Ret(room, FALSE)
    ELSE IF handIndex < 0 \/ handIndex >= Len(gs.hands[callerId]) THEN Ret(room, FALSE)
    ELSE IF At(gs.hands[callerId], handIndex) = Null THEN Ret(room, FALSE)
    ELSE LET revealedCard == At(gs.hands[callerId], handIndex) IN
         IF cardsMatchByRank(revealedCard, topDiscard)
         THEN Ret([room EXCEPT !.gameState =
                      [gs EXCEPT !.hands[callerId] = SetAt(@, handIndex, Null),
                                 !.discardPile = Append(@, revealedCard)]], TRUE)
         ELSE IF Len(gs.deck) > 0
         THEN Ret([room EXCEPT !.gameState =
                      [gs EXCEPT !.deck = SubSeq(@, 1, Len(@) - 1),
                                 !.hands[callerId] = addCardToHand(@, gs.deck[Len(gs.deck)])]],
                  TRUE)
         ELSE Ret(room, TRUE)

\* A faulty callMatchOther: the penalty card of a wrong call goes to the
\* current turn player instead of the caller.
callMatchOtherPenaltyToTurn(room, callerId, targetPlayerId, targetIndex) ==
    LET gs == room.gameState
        topDiscard == getTopDiscard(room)
        turn == getCurrentTurnPlayer(room)
    IN
    IF gs = NoGame THEN Ret(room, FALSE)
    ELSE IF topDiscard = Null THEN Ret(room, FALSE)
    ELSE IF targetPlayerId \notin DOMAIN gs.hands THEN Ret(room, FALSE)
    ELSE IF targetIndex < 0 \/ targetIndex >= Len(gs.hands[targetPlayerId]) THEN Ret(room, FALSE)
    ELSE IF At(gs.hands[targetPlayerId], targetIndex) = Null THEN Ret(room, FALSE)
    ELSE IF cardsMatchByRank(At(gs.hands[targetPlayerId], targetIndex), topDiscard)
         THEN Ret(room, TRUE)
    ELSE IF turn \notin DOMAIN gs.hands THEN Ret(room, FALSE)
    ELSE IF Len(gs.deck) > 0
         THEN Ret([room EXCEPT !.gameState =
                      [gs EXCEPT !.deck = SubSeq(@, 1, Len(@) - 1),
                                 !.hands[turn] = addCardToHand(@, gs.deck[Len(gs.deck)])]],
                  TRUE)
    ELSE Ret(room, TRUE)

\* callMatchOther: a rank match changes nothing yet (the caller gives a card
\* next); a wrong call gives the caller a penalty card.
callMatchOther(room, callerId, targetPlayerId, targetIndex) ==
    LET gs == room.gameState
        topDiscard == getTopDiscard(room)
    IN
    IF gs = NoGame THEN Ret(room, FALSE)
    ELSE IF topDiscard = Null THEN Ret(room, FALSE)
    ELSE IF targetPlayerId \notin DOMAIN gs.hands THEN Ret(room, FALSE)
    ELSE IF targetIndex < 0 \/ targetIndex >= Len(gs.hands[targetPlayerId]) THEN Ret(room, FALSE)
    ELSE IF At(gs.hands[targetPlayerId], targetIndex) = Null THEN Ret(room, FALSE)
    ELSE IF cardsMatchByRank(At(gs.hands[targetPlayerId], targetIndex), topDiscard)
         THEN Ret(room, TRUE)
    ELSE IF callerId \notin DOMAIN gs.hands THEN Ret(room, FALSE)
    ELSE IF Len(gs.deck) > 0
         THEN Ret([room EXCEPT !.gameState =
                      [gs EXCEPT !.deck = SubSeq(@, 1, Len(@) - 1),
                                 !.hands[callerId] = addCardToHand(@, gs.deck[Len(gs.deck)])]],
                  TRUE)
    ELSE Ret(room, TRUE)

\* giveCardAfterMatch writes in the order of the source; callerHand and
\* targetHand are the same array when callerId = targetPlayerId.
giveCardAfterMatch(room, callerId, callerHandIndex, targetPlayerId, targetIndex) ==
    LET gs == room.gameState IN
    IF gs = NoGame THEN Ret(room, FALSE)
    ELSE IF callerId \notin DOMAIN gs.hands \/ targetPlayerId \notin DOMAIN gs.hands
         THEN Ret(room, FALSE)
    ELSE IF callerHandIndex < 0 \/ callerHandIndex >= Len(gs.hands[callerId])
         THEN Ret(room, FALSE)
    ELSE IF At(gs.hands[callerId], callerHandIndex) = Null THEN Ret(room, FALSE)
    ELSE IF targetIndex < 0 \/ targetIndex >= Len(gs.hands[targetPlayerId])
         THEN Ret(room, FALSE)
    ELSE LET matchedCard == At(gs.hands[targetPlayerId], targetIndex)
             cleared == [gs.hands EXCEPT ![targetPlayerId] = SetAt(@, targetIndex, Null)]
             givenCard == At(cleared[callerId], callerHandIndex)
             taken == [cleared EXCEPT ![callerId] = SetAt(@, callerHandIndex, Null)]
             placed == [taken EXCEPT ![targetPlayerId] = addCardToHand(@, givenCard)]
         IN Ret([room EXCEPT !.gameState =
                    [gs EXCEPT !.hands = placed,
                               !.discardPile = Append(@, matchedCard)]], TRUE)

\* A faulty redemption order: it starts at the caller instead of after them.
buildRedemptionOrderFromCaller(turnOrder, callerIdx) ==
    [i \in 1..(Len(turnOrder) - 1) |-> turnOrder[((callerIdx + i - 1) % Len(turnOrder)) + 1]]

\* The redemption order callRedKing builds: everyone after the caller in
\* turnOrder, wrapping around, the caller left out.
buildRedemptionOrder(turnOrder, callerIdx) ==
    [i \in 1..(Len(turnOrder) - 1) |-> turnOrder[((callerIdx + i) % Len(turnOrder)) + 1]]

callRedKing(room, playerId) ==
    LET gs == room.gameState IN
    IF gs = NoGame THEN Ret(room, FALSE)
    ELSE IF gs.phase # "play" THEN Ret(room, FALSE)
    ELSE IF getCurrentTurnPlayer(room) # playerId THEN Ret(room, FALSE)
    ELSE IF gs.drawnCard # Null THEN Ret(room, FALSE)
    ELSE Ret([room EXCEPT !.gameState =
                 [gs EXCEPT !.redKingCaller = playerId,
                            !.phase = "redemption",
                            !.redemptionOrder =
                                buildRedemptionOrder(gs.turnOrder, IndexOf(gs.turnOrder, playerId)),
                            !.redemptionIndex = 0,
                            !.drawnCard = Null,
                            !.drawnBy = Null]], TRUE)

advanceRedemptionTurn(room) ==
    LET gs == room.gameState IN
    IF gs = NoGame THEN Ret(room, FALSE)
    ELSE IF gs.phase # "redemption" THEN Ret(room, FALSE)
    ELSE Ret([room EXCEPT !.gameState =
                 [gs EXCEPT !.redemptionIndex = @ + 1,
                            !.drawnCard = Null,
                            !.drawnBy = Null,
                            !.phase = IF gs.redemptionIndex + 1 >= Len(gs.redemptionOrder)
                                      THEN "reveal" ELSE @]], TRUE)

\* getPlayerScore: hand.reduce over the slots, empty slots skipped.
RECURSIVE getPlayerScore(_)
getPlayerScore(hand) ==
    IF hand = <<>> THEN 0
    ELSE (IF Head(hand) = Null THEN 0 ELSE getCardPoints(Head(hand)))
         + getPlayerScore(Tail(hand))

\* hand.filter((c) => c !== null).
RECURSIVE WithoutGaps(_)
WithoutGaps(hand) ==
    IF hand = <<>> THEN <<>>
    ELSE IF Head(hand) = Null THEN WithoutGaps(Tail(hand))
    ELSE <<Head(hand)>> \o WithoutGaps(Tail(hand))

\* results.sort((a, b) => a.score - b.score): Array.prototype.sort is stable,
\* so an entry goes behind the entries of its own score that came before it.
RECURSIVE SortByScore(_)
SortByScore(results) ==
    IF results = <<>> THEN <<>>
    ELSE LET n == Len(results)
             sorted == SortByScore(SubSeq(results, 1, n - 1))
             last == results[n]
             k == Cardinality({i \in 1..(n - 1) : sorted[i].score <= last.score})
         IN SubSeq(sorted, 1, k) \o <<last>> \o SubSeq(sorted, k + 1, n - 1)

\* The result entries of the players who hold a hand, in room order.
RECURSIVE ResultEntries(_, _)
ResultEntries(players, gs) ==
    IF players = <<>> THEN <<>>
    ELSE LET player == Head(players) IN
         (IF player.id \in DOMAIN gs.hands
          THEN <<[id |-> player.id,
                  name |-> player.name,
                  hand |-> WithoutGaps(gs.hands[player.id]),
                  score |-> getPlayerScore(gs.hands[player.id]),
                  isCaller |-> player.id = gs.redKingCaller]>>
          ELSE <<>>)
         \o ResultEntries(Tail(players), gs)

\* A faulty choice of the winner: the first of the lowest scores, the caller
\* or not.
pickWinnerFirstOfLowest(results, callerId) == results[1].id

\* The winner getGameResults names among sorted results: the only player with
\* the lowest score, else the first of them who is not the caller, else the
\* first of them.
pickWinner(results, callerId) ==
    LET lowestScore == results[1].score
        lowest == {i \in 1..Len(results) : results[i].score = lowestScore}
        nonCallerTied == {i \in lowest : results[i].id # callerId}
    IN IF Cardinality(lowest) = 1 THEN results[1].id
       ELSE IF nonCallerTied # {}
            THEN results[CHOOSE i \in nonCallerTied : \A j \in nonCallerTied : i <= j].id
       ELSE results[1].id

\* getGameResults: null without a game; results[0].score throws a TypeError
\* when no player holds a hand.
getGameResults(room) ==
    IF room.gameState = NoGame THEN [threw |-> FALSE, results |-> <<>>,
                                     winnerId |-> Null, callerId |-> Null]
    ELSE LET gs == room.gameState
             results == SortByScore(ResultEntries(room.players, gs))
         IN IF results = <<>>
            THEN [threw |-> TRUE, results |-> <<>>,
                  winnerId |-> Null, callerId |-> gs.redKingCaller]
            ELSE [threw |-> FALSE, results |-> results,
                  winnerId |-> pickWinner(results, gs.redKingCaller),
                  callerId |-> gs.redKingCaller]

\* ---------------------------------------------------------- socketHandlers
\* A faulty checkPeekComplete: one peek-done short of the room.
checkPeekCompleteEarly(room) ==
    IF room.gameState # NoGame
       /\ room.gameState.phase = "peek"
       /\ Cardinality(room.gameState.peekDone) + 1 >= Len(room.players)
    THEN [room EXCEPT !.gameState.phase = "play"]
    ELSE room

checkPeekComplete(room) ==
    IF room.gameState # NoGame
       /\ room.gameState.phase = "peek"
       /\ Cardinality(room.gameState.peekDone) >= Len(room.players)
    THEN [room EXCEPT !.gameState.phase = "play"]
    ELSE room

isPlayablePhase(room) == room.gameState.phase \in {"play", "redemption"}

isProtectedPlayer(room, playerId) ==
    room.gameState.phase = "redemption" /\ room.gameState.redKingCaller = playerId

advanceAndEmit(room) ==
    IF room.gameState.phase = "redemption"
    THEN advanceRedemptionTurn(room).room
    ELSE advanceTurn(room)

\* Each handler below is the room the handler leaves, given the sender's room
\* (getRoomBySocketId(socket.id), not null) and the payload.
onStartGame(room, socketId, k) ==
    IF room.hostId # socketId THEN room
    ELSE dealCards(setRoomState(room, "playing"), shuffleDeck(k))

onEndGame(room, socketId) == setRoomState(clearGameState(room), "waiting")

onPeekDone(room, socketId) ==
    IF room.gameState = NoGame \/ room.gameState.phase # "peek" THEN room
    ELSE checkPeekComplete([room EXCEPT !.gameState.peekDone = @ \cup {socketId}])

onCallRedKing(room, socketId) ==
    IF room.gameState = NoGame \/ room.gameState.phase # "play" THEN room
    ELSE callRedKing(room, socketId).room

onDrawCard(room, socketId) ==
    IF room.gameState = NoGame THEN room
    ELSE IF ~isPlayablePhase(room) THEN room
    ELSE drawCard(room, socketId).room

onKeepCard(room, socketId, handIndex) ==
    IF room.gameState = NoGame THEN room
    ELSE IF ~keepCard(room, socketId, handIndex).ok THEN room
    ELSE advanceAndEmit(keepCard(room, socketId, handIndex).room)

onDiscardCard(room, socketId) ==
    IF room.gameState = NoGame THEN room
    ELSE IF room.gameState.drawnCard = Null THEN room
    ELSE LET drawnCard == room.gameState.drawnCard
             hasRule == canUseRule(drawnCard)
             ruleType == getRuleType(drawnCard)
             result == discardDrawnCard(room, socketId)
         IN IF ~result.ok THEN room
            ELSE IF hasRule /\ ruleType # "none" THEN result.room
            ELSE advanceAndEmit(result.room)

onSkipRule(room, socketId) ==
    IF room.gameState = NoGame THEN room ELSE advanceAndEmit(room)

\* use-peek-own, use-peek-other and use-black-king-peek emit the peeked card
\* to the sender and write nothing.
\* A faulty use-peek-own handler: it ends the turn when it shows the card.
onUsePeekOwnAdvancing(room, socketId, handIndex) ==
    IF room.gameState = NoGame THEN room
    ELSE IF peekOwnCard(room, socketId, handIndex) = Null THEN room
    ELSE advanceAndEmit(room)

onUsePeekOwn(room, socketId, handIndex) == room

onUsePeekOther(room, socketId, targetPlayerId, handIndex) == room

onFinishPeek(room, socketId) ==
    IF room.gameState = NoGame THEN room ELSE advanceAndEmit(room)

onUseBlindSwitch(room, socketId, playerAId, indexA, playerBId, indexB) ==
    IF room.gameState = NoGame THEN room
    ELSE IF isProtectedPlayer(room, playerAId) \/ isProtectedPlayer(room, playerBId) THEN room
    ELSE IF ~blindSwitch(room, playerAId, indexA, playerBId, indexB).ok THEN room
    ELSE advanceAndEmit(blindSwitch(room, playerAId, indexA, playerBId, indexB).room)

onUseBlackKingPeek(room, socketId, target1PlayerId, index1, target2PlayerId, index2) == room

onUseBlackKingSwitch(room, socketId, playerAId, indexA, playerBId, indexB) ==
    IF room.gameState = NoGame THEN room
    ELSE IF isProtectedPlayer(room, playerAId) \/ isProtectedPlayer(room, playerBId) THEN room
    ELSE IF ~blindSwitch(room, playerAId, indexA, playerBId, indexB).ok THEN room
    ELSE advanceAndEmit(blindSwitch(room, playerAId, indexA, playerBId, indexB).room)

onUseBlackKingSkip(room, socketId) ==
    IF room.gameState = NoGame THEN room ELSE advanceAndEmit(room)

\* A faulty call-match-own handler: it ends the turn after the call.
onCallMatchOwnAdvancing(room, socketId, handIndex) ==
    IF room.gameState = NoGame THEN room
    ELSE IF ~isPlayablePhase(room) THEN room
    ELSE IF isProtectedPlayer(room, socketId) THEN room
    ELSE IF ~callMatchOwn(room, socketId, handIndex).ok THEN room
    ELSE advanceAndEmit(callMatchOwn(room, socketId, handIndex).room)

onCallMatchOwn(room, socketId, handIndex) ==
    IF room.gameState = NoGame THEN room
    ELSE IF ~isPlayablePhase(room) THEN room
    ELSE IF isProtectedPlayer(room, socketId) THEN room
    ELSE callMatchOwn(room, socketId, handIndex).room

onCallMatchOther(room, socketId, targetPlayerId, handIndex) ==
    IF room.gameState = NoGame THEN room
    ELSE IF ~isPlayablePhase(room) THEN room
    ELSE IF isProtectedPlayer(room, targetPlayerId) THEN room
    ELSE IF isProtectedPlayer(room, socketId) THEN room
    ELSE callMatchOther(room, socketId, targetPlayerId, handIndex).room

onGiveCardAfterMatch(room, socketId, callerHandIndex, targetPlayerId, targetIndex) ==
    IF room.gameState = NoGame THEN room
    ELSE IF isProtectedPlayer(room, targetPlayerId) THEN room
    ELSE giveCardAfterMatch(room, socketId, callerHandIndex, targetPlayerId, targetIndex).room

\* leave-room and disconnect: leaveRoom, then checkPeekComplete on the room
\* that is left when it still has players.
onLeave(reg, socketId) ==
    LET result == leaveRoom(reg, socketId) IN
    IF ~result.isEmpty /\ result.room # NoRoom
    THEN [result.reg EXCEPT !.rooms =
             MapSet(@, result.room.code, checkPeekComplete(result.room))]
    ELSE result.reg

\* ------------------------------------------------------------------ state
VARIABLES
    rooms,          \* roomManager's rooms: code -> room
    playerRoomMap,  \* roomManager's playerRoomMap: socket id -> code
    sockets,        \* every connection id: "new" (in no room yet), "open" or "closed"
    budget          \* state-changing commands the behaviour may still take

vars == <<rooms, playerRoomMap, sockets, budget>>

Reg == [rooms |-> rooms, playerRoomMap |-> playerRoomMap]

\* The name a connection's client sends with host-game and join-game.
PlayerName(c) == c

Init ==
    /\ rooms = <<>>
    /\ playerRoomMap = <<>>
    /\ sockets = [c \in Conns |-> "new"]
    /\ budget = MaxSteps

\* A command leaves the registry `reg`; one that changes it counts toward
\* the budget.
Commit(reg) ==
    /\ reg # Reg => budget > 0
    /\ rooms' = reg.rooms
    /\ playerRoomMap' = reg.playerRoomMap
    /\ budget' = IF reg # Reg THEN budget - 1 ELSE budget

\* A gameplay command leaves `new` in place of the sender's room.
Play(room, new) ==
    /\ Commit([Reg EXCEPT !.rooms = MapSet(@, room.code, new)])
    /\ UNCHANGED sockets

\* The sender's room, for a handler that returns at once without one.
Sender(c) == getRoomBySocketId(Reg, c)

CanSend(c) == sockets[c] = "open" /\ Sender(c) # NoRoom

\* socket.io gives every connection a fresh id: the ids are named in the
\* order in which the connections first enter a room.
CanOpen(c) ==
    \/ sockets[c] = "open"
    \/ sockets[c] = "new" /\ \A d \in Conns : d < c => sockets[d] # "new"

\* ---------------------------------------------------------------- actions
\* generateRoomCode re-samples until the code is free.
HostGameIn(c, name, codes) ==
    /\ CanOpen(c)
    /\ \E code \in codes \ DOMAIN rooms :
           Commit(createRoom(Reg, code, c, name))
    /\ sockets' = [sockets EXCEPT ![c] = "open"]

HostGameAs(c, name) == HostGameIn(c, name, Codes)

JoinGameAs(c, code, name) ==
    /\ CanOpen(c)
    /\ Commit(joinRoom(Reg, code, c, name))
    /\ sockets' = IF joinError(Reg, code, c, name) = ""
                  THEN [sockets EXCEPT ![c] = "open"]
                  ELSE sockets

HostGame(c) == HostGameAs(c, PlayerName(c))

JoinGame(c, code) == JoinGameAs(c, code, PlayerName(c))

StartGame(c) ==
    /\ CanSend(c)
    /\ \E k \in Shuffles : Play(Sender(c), onStartGame(Sender(c), c, k))

EndGame(c) ==
    /\ CanSend(c)
    /\ Play(Sender(c), onEndGame(Sender(c), c))

\* peek-done only grows peekDone, which the room's players bound.
PeekDone(c) ==
    /\ CanSend(c)
    /\ rooms' = MapSet(rooms, Sender(c).code, onPeekDone(Sender(c), c))
    /\ UNCHANGED <<playerRoomMap, sockets, budget>>

LeaveRoom(c) ==
    /\ sockets[c] = "open"
    /\ Commit(onLeave(Reg, c))
    /\ UNCHANGED sockets

Disconnect(c) ==
    /\ sockets[c] = "open"
    /\ budget > 0
    /\ rooms' = onLeave(Reg, c).rooms
    /\ playerRoomMap' = onLeave(Reg, c).playerRoomMap
    /\ sockets' = [sockets EXCEPT ![c] = "closed"]
    /\ budget' = budget - 1

CallRedKing(c) ==
    /\ CanSend(c)
    /\ Play(Sender(c), onCallRedKing(Sender(c), c))

DrawCard(c) ==
    /\ CanSend(c)
    /\ Play(Sender(c), onDrawCard(Sender(c), c))

KeepCard(c) ==
    /\ CanSend(c)
    /\ \E handIndex \in HandIndices :
           Play(Sender(c), onKeepCard(Sender(c), c, handIndex))

DiscardCard(c) ==
    /\ CanSend(c)
    /\ Play(Sender(c), onDiscardCard(Sender(c), c))

SkipRule(c) ==
    /\ CanSend(c)
    /\ Play(Sender(c), onSkipRule(Sender(c), c))

UsePeekOwn(c) ==
    /\ CanSend(c)
    /\ \E handIndex \in HandIndices :
           Play(Sender(c), onUsePeekOwn(Sender(c), c, handIndex))

UsePeekOther(c) ==
    /\ CanSend(c)
    /\ \E t \in Conns, handIndex \in HandIndices :
           Play(Sender(c), onUsePeekOther(Sender(c), c, t, handIndex))

FinishPeek(c) ==
    /\ CanSend(c)
    /\ Play(Sender(c), onFinishPeek(Sender(c), c))

UseBlindSwitch(c) ==
    /\ CanSend(c)
    /\ \E a \in Conns, b \in Conns, indexA \in PairIndices, indexB \in PairIndices :
           Play(Sender(c), onUseBlindSwitch(Sender(c), c, a, indexA, b, indexB))

UseBlackKingPeek(c) ==
    /\ CanSend(c)
    /\ \E a \in Conns, b \in Conns, index1 \in PairIndices, index2 \in PairIndices :
           Play(Sender(c), onUseBlackKingPeek(Sender(c), c, a, index1, b, index2))

UseBlackKingSwitch(c) ==
    /\ CanSend(c)
    /\ \E a \in Conns, b \in Conns, indexA \in PairIndices, indexB \in PairIndices :
           Play(Sender(c), onUseBlackKingSwitch(Sender(c), c, a, indexA, b, indexB))

UseBlackKingSkip(c) ==
    /\ CanSend(c)
    /\ Play(Sender(c), onUseBlackKingSkip(Sender(c), c))

CallMatchOwnAt(c, handIndex) ==
    /\ CanSend(c)
    /\ Play(Sender(c), onCallMatchOwn(Sender(c), c, handIndex))

CallMatchOwn(c) == \E handIndex \in HandIndices : CallMatchOwnAt(c, handIndex)

CallMatchOther(c) ==
    /\ CanSend(c)
    /\ \E t \in Conns, handIndex \in HandIndices :
           Play(Sender(c), onCallMatchOther(Sender(c), c, t, handIndex))

GiveCardAfterMatch(c) ==
    /\ CanSend(c)
    /\ \E t \in Conns, callerHandIndex \in PairIndices, targetIndex \in PairIndices :
           Play(Sender(c), onGiveCardAfterMatch(Sender(c), c, callerHandIndex, t, targetIndex))

Next ==
    \E c \in Conns :
        \/ HostGame(c)
        \/ \E code \in Codes : JoinGame(c, code)
        \/ StartGame(c)
        \/ EndGame(c)
        \/ PeekDone(c)
        \/ LeaveRoom(c)
        \/ Disconnect(c)
        \/ CallRedKing(c)
        \/ DrawCard(c)
        \/ KeepCard(c)
        \/ DiscardCard(c)
        \/ SkipRule(c)
        \/ UsePeekOwn(c)
        \/ UsePeekOther(c)
        \/ FinishPeek(c)
        \/ UseBlindSwitch(c)
        \/ UseBlackKingPeek(c)
        \/ UseBlackKingSwitch(c)
        \/ UseBlackKingSkip(c)
        \/ CallMatchOwn(c)
        \/ CallMatchOther(c)
        \/ GiveCardAfterMatch(c)

Spec == Init /\ [][Next]_vars

\* -------------------------------------------------------------- late games
\* One whole turn of the current turn player: draw-card, discard-card and,
\* when the card has a rule, skip-rule.
PlayTurn(room) ==
    LET p == getCurrentTurnPlayer(room)
        drawn == onDrawCard(room, p)
        discarded == onDiscardCard(drawn, p)
    IN IF canUseRule(drawn.gameState.drawnCard)
          /\ getRuleType(drawn.gameState.drawnCard) # "none"
       THEN onSkipRule(discarded, p)
       ELSE discarded

\* n whole turns, or as many as change the room.
RECURSIVE PlayTurns(_, _)
PlayTurns(room, n) ==
    IF n = 0 \/ PlayTurn(room) = room THEN room ELSE PlayTurns(PlayTurn(room), n - 1)

\* The registry after host-game by 1 and join-game by 2.
MidRegistry ==
    joinRoom(createRoom([rooms |-> <<>>, playerRoomMap |-> <<>>], 1, 1, PlayerName(1)),
             1, 2, PlayerName(2))

\* Its room after start-game by the host and peek-done by both players.
MidTable == onPeekDone(onPeekDone(onStartGame(MidRegistry.rooms[1], 1, 1), 1), 2)

\* The whole turns played since: one, all but one card of the deck, the deck.
MidTurns == {1, DeckSize - 2 * HandSize - 1, DeckSize - 2 * HandSize}

\* A game of two players after some whole turns.
MidInit ==
    /\ \E n \in MidTurns :
           rooms = [MidRegistry.rooms EXCEPT ![1] = PlayTurns(MidTable, n)]
    /\ playerRoomMap = MidRegistry.playerRoomMap
    /\ sockets = [c \in Conns |-> IF c <= 2 THEN "open" ELSE "new"]
    /\ budget = MidSteps

SpecMid == MidInit /\ [][Next]_vars

\* ------------------------------------------------------------- rule cards
\* The whole turns played before the turn that discards a rule card: the
\* cards drawn next are a 7, a black King, a Queen and a 10.
RuleTurns == {1, 4, 5, 7}

\* The game after n whole turns, draw-card and discard-card by the player
\* whose turn it is: the rule of the discarded card is open.
RuleTable(n) ==
    LET room == PlayTurns(MidTable, n)
        p == getCurrentTurnPlayer(room)
    IN onDiscardCard(onDrawCard(room, p), p)

RuleInit ==
    /\ \E n \in RuleTurns :
           rooms = [MidRegistry.rooms EXCEPT ![1] = RuleTable(n)]
    /\ playerRoomMap = MidRegistry.playerRoomMap
    /\ sockets = [c \in Conns |-> IF c <= 2 THEN "open" ELSE "new"]
    /\ budget = RuleSteps

SpecRule == RuleInit /\ [][Next]_vars

\* ------------------------------------------------------- redemption games
\* An outcome of shuffleDeck that deals `first` to the host and `second` to
\* the second player and leaves `last` as the first card to draw.
DealtDeck(first, second, last) ==
    first \o second
    \o Filter(createDeck, Cards \ (Range(first) \cup Range(second) \cup {last}))
    \o <<last>>

\* The deals the redemption games start from: between them the two hands
\* hold every card of the deck; the second deal gives both players 6 points;
\* in the others the first card drawn has the rank of the second player's
\* slot 0.
RedemptionDeals ==
    { DealtDeck(<<Card("hearts", 13), Card("diamonds", 13), Card("clubs", 13), Card("spades", 13)>>,
                <<Card("hearts", 11), Card("hearts", 12), Card("hearts", 10), Card("hearts", 9)>>,
                Card("diamonds", 11)),
      DealtDeck(<<53, Card("hearts", 1), Card("hearts", 2), Card("hearts", 3)>>,
                <<54, Card("diamonds", 1), Card("diamonds", 2), Card("diamonds", 3)>>,
                Card("hearts", 4)),
      DealtDeck(<<4, 5, 6, 7>>, <<8, 17, 18, 19>>, Card("diamonds", 8)),
      DealtDeck(<<20, 21, 22, 23>>, <<24, 25, 27, 28>>, Card("clubs", 11)),
      DealtDeck(<<29, 30, 31, 32>>, <<33, 34, 35, 36>>, Card("spades", 7)),
      DealtDeck(<<37, 38, 40, 41>>, <<42, 43, 44, 45>>, Card("hearts", 3)),
      DealtDeck(<<46, 47, 48, 49>>, <<50, 51, 52, 53>>, Card("hearts", 11)) }

\* The room after start-game dealt `deck`, both players' peek-done, one whole
\* turn of the second player and call-red-king by the host.
RedemptionTable(deck) ==
    LET dealt == dealCards(setRoomState(MidRegistry.rooms[1], "playing"), deck)
        played == PlayTurn(onPeekDone(onPeekDone(dealt, 1), 2))
    IN onCallRedKing(played, 1)

\* A game of two players in its redemption round.
RevealInit ==
    /\ \E deck \in RedemptionDeals :
           rooms = [MidRegistry.rooms EXCEPT ![1] = RedemptionTable(deck)]
    /\ playerRoomMap = MidRegistry.playerRoomMap
    /\ sockets = [c \in Conns |-> IF c <= 2 THEN "open" ELSE "new"]
    /\ budget = RevealSteps

SpecReveal == RevealInit /\ [][Next]_vars

\* ------------------------------------------------------------------ lobbies
Names == 1..NumNames

LobbyCodes == 1..NumLobbyCodes

\* Earlier connections that sit in a lobby and send nothing more: the host
\* 101 and the players 102.., each under its own name.
Crowd(n) == [i \in 1..n |-> [id |-> 100 + i, name |-> 100 + i, isHost |-> i = 1]]

\* The registry after host-game by 101 and join-game by the rest of a crowd
\* of n; the empty registry for n = 0.
CrowdRegistry(n) ==
    IF n = 0 THEN [rooms |-> <<>>, playerRoomMap |-> <<>>]
    ELSE [rooms |-> MapSet(<<>>, 1, [code |-> 1, hostId |-> 101, players |-> Crowd(n),
                                     state |-> "waiting", gameState |-> NoGame]),
          playerRoomMap |-> [id \in {100 + i : i \in 1..n} |-> 1]]

\* The lobbies a behaviour starts from: none, and one that is one player
\* short of full.
CrowdSizes == {0, MaxPlayers - 1}

LobbyInit ==
    /\ \E n \in CrowdSizes :
           /\ rooms = CrowdRegistry(n).rooms
           /\ playerRoomMap = CrowdRegistry(n).playerRoomMap
    /\ sockets = [c \in Conns |-> "new"]
    /\ budget = LobbySteps

\* The lobby commands, with the name the client chooses.
LobbyNext ==
    \E c \in Conns :
        \/ \E name \in Names : HostGameIn(c, name, LobbyCodes)
        \/ \E code \in LobbyCodes, name \in Names : JoinGameAs(c, code, name)
        \/ StartGame(c)
        \/ EndGame(c)
        \/ LeaveRoom(c)
        \/ Disconnect(c)

SpecLobby == LobbyInit /\ [][LobbyNext]_vars

\* ----------------------------------------------------------- observations
\* The rooms that hold a game.
GameRooms == {code \in DOMAIN rooms : rooms[code].gameState # NoGame}

\* How many slots of all hands hold `card`.
HandsCount(hands, card) ==
    Cardinality({s \in UNION {{<<p, i>> : i \in 1..Len(hands[p])} : p \in DOMAIN hands} :
                    hands[s[1]][s[2]] = card})

\* How many times `card` occurs across deck, hands, discardPile and drawnCard.
CardCount(gs, card) ==
    Cardinality({i \in 1..Len(gs.deck) : gs.deck[i] = card})
    + HandsCount(gs.hands, card)
    + Cardinality({i \in 1..Len(gs.discardPile) : gs.discardPile[i] = card})
    + (IF gs.drawnCard = card THEN 1 ELSE 0)

\* The room with code `code` holds a game before and after the step.
GameGoesOn(code) ==
    /\ code \in GameRooms
    /\ code \in DOMAIN rooms'
    /\ rooms'[code].gameState # NoGame

\* The step leaves deck, hands, discardPile, drawnCard, turnIndex,
\* redemptionIndex and phase of the room's game as they are.
GameUnchanged(code) ==
    /\ GameGoesOn(code)
    /\ rooms'[code].gameState.deck = rooms[code].gameState.deck
    /\ rooms'[code].gameState.hands = rooms[code].gameState.hands
    /\ rooms'[code].gameState.discardPile = rooms[code].gameState.discardPile
    /\ rooms'[code].gameState.drawnCard = rooms[code].gameState.drawnCard
    /\ rooms'[code].gameState.turnIndex = rooms[code].gameState.turnIndex
    /\ rooms'[code].gameState.redemptionIndex = rooms[code].gameState.redemptionIndex
    /\ rooms'[code].gameState.phase = rooms[code].gameState.phase

\* ------------------------------------------------------------------ claims
\* C1: in every room that holds a game, each of the 54 card ids occurs exactly
\* once across deck, hands, discardPile and drawnCard.
C1_CardConservation ==
    \A code \in GameRooms :
        \A card \in Cards : CardCount(rooms[code].gameState, card) = 1

\* C2: whenever a drawn card is in flight, drawnBy is the current turn player.
C2_SingleDraw ==
    \A code \in GameRooms :
        rooms[code].gameState.drawnCard # Null
            => rooms[code].gameState.drawnBy = getCurrentTurnPlayer(rooms[code])

\* C3: while the phase is redemption no step changes a slot of the Red King
\* caller's hand, as long as the same game goes on (redemption or reveal) and
\* the caller holds a hand.
C3_ProtectedCaller ==
    [][\A code \in GameRooms :
          LET gs == rooms[code].gameState IN
          (/\ gs.phase = "redemption"
           /\ GameGoesOn(code)
           /\ rooms'[code].gameState.phase \in {"redemption", "reveal"}
           /\ gs.redKingCaller \in DOMAIN gs.hands
           /\ gs.redKingCaller \in DOMAIN rooms'[code].gameState.hands)
              => rooms'[code].gameState.hands[gs.redKingCaller] = gs.hands[gs.redKingCaller]]_vars

\* The turn-bound commands, as `c` sends them.
TurnBound(c) ==
    \/ DrawCard(c) \/ KeepCard(c) \/ DiscardCard(c) \/ SkipRule(c) \/ FinishPeek(c)
    \/ UsePeekOwn(c) \/ UsePeekOther(c) \/ UseBlindSwitch(c) \/ UseBlackKingPeek(c)
    \/ UseBlackKingSwitch(c) \/ UseBlackKingSkip(c) \/ CallRedKing(c)

\* C4: a turn-bound command whose sender is not the current turn player of a
\* game in play or redemption (another player holds the turn) leaves deck,
\* hands, discardPile, drawnCard, turnIndex, redemptionIndex and phase
\* unchanged.
C4_WrongTurnDropped ==
    [][\A c \in Conns :
          (/\ CanSend(c)
           /\ Sender(c).gameState # NoGame
           /\ isPlayablePhase(Sender(c))
           /\ getCurrentTurnPlayer(Sender(c)) # Null
           /\ getCurrentTurnPlayer(Sender(c)) # c
           /\ TurnBound(c))
              => GameUnchanged(Sender(c).code)]_vars

\* n turn advances from index `idx` of a turn order of n players.
RECURSIVE TurnAfter(_, _, _)
TurnAfter(k, idx, n) ==
    IF k = 0 THEN idx ELSE TurnAfter(k - 1, nextTurnIndex(idx, n), n)

\* For every table size and every starting index, n advances visit every
\* index once and come back to the start.
TurnCycle ==
    \A n \in 1..MaxPlayers : \A start \in 0..(n - 1) :
        /\ {TurnAfter(k, start, n) : k \in 0..(n - 1)} = 0..(n - 1)
        /\ TurnAfter(n, start, n) = start

\* For every table size n >= 2, the rotation of players 1..n is 2..n, 1.
RotationByOne ==
    \A n \in 2..MaxPlayers :
        rotateTurnOrder([i \in 1..n |-> i]) = [i \in 1..n |-> (i % n) + 1]

\* The step is a start-game of the host of room `code`: it leaves a fresh
\* peek phase.
Deals(code) ==
    /\ code \in DOMAIN rooms'
    /\ rooms'[code].gameState # NoGame
    /\ rooms'[code].gameState.phase = "peek"
    /\ rooms'[code].gameState.peekDone = {}
    /\ \E c \in Conns :
           /\ CanSend(c)
           /\ Sender(c).code = code
           /\ Sender(c).hostId = c
           /\ StartGame(c)

\* C5: a deal to n >= 2 players leaves turnOrder the player list rotated left
\* by one, so the first turn is the player after the host and never the host;
\* n turn advances visit every player once and return to the first.
C5_TurnOrder ==
    [][\A code \in DOMAIN rooms :
          Deals(code) =>
              LET room == rooms'[code]
                  gs == room.gameState
                  ids == PlayerIds(room)
                  n == Len(ids)
              IN /\ TurnCycle
                 /\ RotationByOne
                 /\ n >= 2 =>
                        /\ Len(gs.turnOrder) = n
                        /\ \A i \in 1..n : gs.turnOrder[i] = ids[(i % n) + 1]
                        /\ gs.turnIndex = 0
                        /\ getCurrentTurnPlayer(room) = ids[2]
                        /\ getCurrentTurnPlayer(room) # room.hostId
                        /\ {At(gs.turnOrder, TurnAfter(k, 0, n)) : k \in 0..(n - 1)}
                               = Range(ids)
                        /\ At(gs.turnOrder, TurnAfter(n, 0, n)) = ids[2]]_vars

\* Three players were dealt to and the player after the host holds the turn.
C5_Witness ==
    \E code \in GameRooms :
        /\ Len(rooms[code].players) = 3
        /\ rooms[code].gameState.phase = "peek"
        /\ rooms[code].gameState.turnOrder = <<2, 3, 1>>
        /\ getCurrentTurnPlayer(rooms[code]) = rooms[code].players[2].id

\* Every player of the room is in the game's peekDone.
AllPeeked(room) ==
    \A i \in 1..Len(room.players) : room.players[i].id \in room.gameState.peekDone

\* C6: a step of a game in the peek phase leaves it in play exactly when every
\* player then in the room has sent peek-done; a peek-done adds its sender to
\* peekDone and nobody else.
C6_PeekToPlay ==
    [][\A code \in GameRooms :
          (GameGoesOn(code) /\ rooms[code].gameState.phase = "peek") =>
              /\ rooms'[code].gameState.phase \in {"peek", "play"}
              /\ rooms'[code].gameState.phase = "play" <=> AllPeeked(rooms'[code])
              /\ \A c \in Conns :
                     (PeekDone(c) /\ CanSend(c) /\ Sender(c).code = code) =>
                         rooms'[code].gameState.peekDone
                             = rooms[code].gameState.peekDone \cup {c}]_vars

\* A game of three players has just gone from peek to play.
C6_Witness ==
    \E code \in GameRooms :
        /\ Len(rooms[code].players) = 3
        /\ rooms[code].gameState.phase = "play"
        /\ rooms[code].gameState.peekDone = {1, 2, 3}

\* C7: call-red-king by the current turn player of a game in play with no
\* drawn card sets redKingCaller, phase redemption, redemptionIndex 0 and
\* redemptionOrder to turnOrder from just after the caller, wrapping, without
\* the caller; any other call-red-king changes nothing.
C7_CallRedKing ==
    [][\A c \in Conns :
          (rooms' # rooms /\ CanSend(c) /\ CallRedKing(c)) =>
              LET room == Sender(c)
                  gs == room.gameState
              IN IF /\ gs # NoGame
                    /\ gs.phase = "play"
                    /\ getCurrentTurnPlayer(room) = c
                    /\ gs.drawnCard = Null
                 THEN LET ngs == rooms'[room.code].gameState
                          n == Len(gs.turnOrder)
                          k == IndexOf(gs.turnOrder, c)
                      IN /\ ngs.redKingCaller = c
                         /\ ngs.phase = "redemption"
                         /\ ngs.redemptionIndex = 0
                         /\ Len(ngs.redemptionOrder) = n - 1
                         /\ \A i \in 1..(n - 1) :
                                ngs.redemptionOrder[i] = At(gs.turnOrder, (k + i) % n)
                         /\ Range(ngs.redemptionOrder) = Range(gs.turnOrder) \ {c}
                         /\ ngs.hands = gs.hands
                         /\ ngs.deck = gs.deck
                         /\ ngs.discardPile = gs.discardPile
                         /\ ngs.turnOrder = gs.turnOrder
                 ELSE rooms' = rooms]_vars

\* Red King was called at a table of three: two players redeem, in turn order.
C7_Witness ==
    \E code \in GameRooms :
        LET gs == rooms[code].gameState IN
        /\ gs.phase = "redemption"
        /\ gs.redKingCaller = 2
        /\ gs.turnOrder = <<2, 3, 1>>
        /\ gs.redemptionOrder = <<3, 1>>
        /\ gs.redemptionIndex = 0

\* C8: after call-red-king the caller never holds the turn; while the phase
\* is redemption a non-caller of redemptionOrder holds it; and the phase is
\* reveal exactly when |players| - 1 redemption turns are completed.
C8_RedemptionRound ==
    \A code \in GameRooms :
        LET room == rooms[code]
            gs == room.gameState
        IN gs.redKingCaller # Null =>
               /\ gs.phase = "redemption" =>
                      /\ gs.redemptionIndex < Len(gs.redemptionOrder)
                      /\ getCurrentTurnPlayer(room) # gs.redKingCaller
               /\ gs.phase = "reveal" <=> gs.redemptionIndex >= Len(room.players) - 1

\* C9: call-match-own, call-match-other and give-card-after-match sent to a
\* game in play or redemption leave turnIndex, redemptionIndex, phase,
\* drawnCard and drawnBy unchanged.
C9_MatchLeavesTurn ==
    [][\A c \in Conns :
          (/\ rooms' # rooms
           /\ CanSend(c)
           /\ Sender(c).gameState # NoGame
           /\ isPlayablePhase(Sender(c))
           /\ (CallMatchOwn(c) \/ CallMatchOther(c) \/ GiveCardAfterMatch(c)))
              => LET gs == Sender(c).gameState
                     ngs == rooms'[Sender(c).code].gameState
                 IN /\ ngs # NoGame
                    /\ ngs.turnIndex = gs.turnIndex
                    /\ ngs.redemptionIndex = gs.redemptionIndex
                    /\ ngs.phase = gs.phase
                    /\ ngs.drawnCard = gs.drawnCard
                    /\ ngs.drawnBy = gs.drawnBy]_vars

\* Two commands after the first whole turn: the player whose turn it is holds
\* a drawn card, and the other player's slot-0 card, matched meanwhile, is the
\* top discard.
C9_Witness ==
    \E code \in GameRooms :
        LET gs == rooms[code].gameState IN
        /\ gs.phase = "play"
        /\ budget = MidSteps - 2
        /\ gs.drawnCard # Null
        /\ gs.drawnBy = getCurrentTurnPlayer(rooms[code])
        /\ \E p \in DOMAIN gs.hands :
               /\ p # gs.drawnBy
               /\ gs.hands[p][1] = Null
               /\ gs.discardPile = <<ShuffleBack(1)[2], ShuffleFront(1)[5]>>

\* call-match-own of slot i by c reaches callMatchOwn and names a card while
\* the discard pile has a top.
MatchOwnApplies(c, i) ==
    /\ CanSend(c)
    /\ Sender(c).gameState # NoGame
    /\ isPlayablePhase(Sender(c))
    /\ ~isProtectedPlayer(Sender(c), c)
    /\ Sender(c).gameState.discardPile # <<>>
    /\ c \in DOMAIN Sender(c).gameState.hands
    /\ i >= 0
    /\ i < Len(Sender(c).gameState.hands[c])
    /\ At(Sender(c).gameState.hands[c], i) # Null

\* The rank of c's slot i is the rank of the top discard.
MatchOwnHits(c, i) ==
    LET gs == Sender(c).gameState
    IN rank(At(gs.hands[c], i)) = rank(gs.discardPile[Len(gs.discardPile)])

\* The step keeps the length of c's hand or grows it, moves none of its cards
\* but slot i, and touches no other hand.
MatchOwnKeepsSlots(c, i) ==
    LET gs == Sender(c).gameState
        ngs == rooms'[Sender(c).code].gameState
    IN /\ ngs # NoGame
       /\ DOMAIN ngs.hands = DOMAIN gs.hands
       /\ \A p \in DOMAIN gs.hands : p # c => ngs.hands[p] = gs.hands[p]
       /\ Len(ngs.hands[c]) >= Len(gs.hands[c])
       /\ \A j \in 0..(Len(gs.hands[c]) - 1) :
              (j # i /\ At(gs.hands[c], j) # Null)
                  => At(ngs.hands[c], j) = At(gs.hands[c], j)

\* The step leaves slot i a gap, c's hand as long as it was, and the card on
\* top of the discard pile.
MatchOwnSuccess(c, i) ==
    LET gs == Sender(c).gameState
        ngs == rooms'[Sender(c).code].gameState
    IN /\ At(ngs.hands[c], i) = Null
       /\ Len(ngs.hands[c]) = Len(gs.hands[c])
       /\ \A j \in 0..(Len(gs.hands[c]) - 1) :
              j # i => At(ngs.hands[c], j) = At(gs.hands[c], j)
       /\ ngs.discardPile = Append(gs.discardPile, At(gs.hands[c], i))
       /\ ngs.deck = gs.deck

\* The step leaves slot i alone and writes the last card of the deck into the
\* first gap of c's hand, or after its last slot when it has no gap.
MatchOwnPenalty(c, i) ==
    LET gs == Sender(c).gameState
        ngs == rooms'[Sender(c).code].gameState
        hand == gs.hands[c]
        gaps == {j \in 0..(Len(hand) - 1) : At(hand, j) = Null}
        slot == IF gaps = {} THEN Len(hand)
                ELSE CHOOSE j \in gaps : \A k \in gaps : j <= k
    IN /\ gs.deck # <<>>
       /\ ngs.deck = SubSeq(gs.deck, 1, Len(gs.deck) - 1)
       /\ ngs.discardPile = gs.discardPile
       /\ At(ngs.hands[c], i) = At(hand, i)
       /\ Len(ngs.hands[c]) = (IF gaps = {} THEN Len(hand) + 1 ELSE Len(hand))
       /\ At(ngs.hands[c], slot) = gs.deck[Len(gs.deck)]
       /\ \A j \in 0..(Len(hand) - 1) : j # slot => At(ngs.hands[c], j) = At(hand, j)

\* call-match-own of slot i by c changes nothing.
MatchOwnIgnored(c, i) == onCallMatchOwn(Sender(c), c, i) = Sender(c)

\* C10: every match-own of a non-gap slot against a non-empty discard pile
\* either leaves a gap at the slot and the card on the discard pile (equal
\* ranks) or gives the caller one penalty card from the end of the deck, in
\* the first gap of the hand or at its end; the hand never shrinks and no
\* other card moves.
C10_MatchOwn ==
    /\ [][\A c \in Conns : \A i \in HandIndices :
             (rooms' # rooms /\ MatchOwnApplies(c, i) /\ CallMatchOwnAt(c, i)) =>
                 /\ MatchOwnKeepsSlots(c, i)
                 /\ IF MatchOwnHits(c, i)
                    THEN MatchOwnSuccess(c, i)
                    ELSE MatchOwnPenalty(c, i)]_vars
    /\ [](\A c \in Conns : \A i \in HandIndices :
             MatchOwnApplies(c, i) => ~MatchOwnIgnored(c, i))

\* ------------------------------------------------------------- match-other
\* c may send call-match-other on t: a game in play or redemption, and
\* neither c nor t is the protected Red King caller.
MatchOtherAllowed(c, t) ==
    /\ CanSend(c)
    /\ Sender(c).gameState # NoGame
    /\ isPlayablePhase(Sender(c))
    /\ ~isProtectedPlayer(Sender(c), t)
    /\ ~isProtectedPlayer(Sender(c), c)

\* The call names a card of t while a card is on top of the discard pile.
MatchOtherNamesCard(c, t, i) ==
    LET gs == Sender(c).gameState IN
    /\ gs.discardPile # <<>>
    /\ gs.discardPile[Len(gs.discardPile)] # Null
    /\ t \in DOMAIN gs.hands
    /\ i >= 0
    /\ i < Len(gs.hands[t])
    /\ At(gs.hands[t], i) # Null

\* The rank of t's slot i is the rank of the top discard.
MatchOtherHits(c, t, i) ==
    LET gs == Sender(c).gameState
    IN rank(At(gs.hands[t], i)) = rank(gs.discardPile[Len(gs.discardPile)])

\* The room call-match-other {targetPlayerId: t, handIndex: i} by c leaves.
MatchOtherResult(c, t, i) == onCallMatchOther(Sender(c), c, t, i)

\* `new` differs from c's room by one penalty card: the last card of the deck
\* is in the first gap of c's hand, or after its last slot when the hand has
\* no gap, and nothing else has changed.
PenaltyTo(c, new) ==
    LET gs == Sender(c).gameState
        ngs == new.gameState
        hand == gs.hands[c]
        gaps == {j \in 0..(Len(hand) - 1) : At(hand, j) = Null}
        slot == IF gaps = {} THEN Len(hand)
                ELSE CHOOSE j \in gaps : \A k \in gaps : j <= k
    IN /\ gs.deck # <<>>
       /\ ngs.deck = SubSeq(gs.deck, 1, Len(gs.deck) - 1)
       /\ Len(ngs.hands[c]) = (IF gaps = {} THEN Len(hand) + 1 ELSE Len(hand))
       /\ At(ngs.hands[c], slot) = gs.deck[Len(gs.deck)]
       /\ \A j \in 0..(Len(hand) - 1) : j # slot => At(ngs.hands[c], j) = At(hand, j)
       /\ DOMAIN ngs.hands = DOMAIN gs.hands
       /\ \A p \in DOMAIN gs.hands : p # c => ngs.hands[p] = gs.hands[p]
       /\ new = [Sender(c) EXCEPT !.gameState.deck = ngs.deck,
                                  !.gameState.hands = ngs.hands]

CardsHeld(hand) == Cardinality({j \in 1..Len(hand) : hand[j] # Null})

\* The first gap of a hand (0-based), its length when it has none.
FirstGap(hand) ==
    LET gaps == {j \in 0..(Len(hand) - 1) : At(hand, j) = Null}
    IN IF gaps = {} THEN Len(hand) ELSE CHOOSE j \in gaps : \A k \in gaps : j <= k

\* give-card-after-match {callerHandIndex: ci, targetPlayerId: t, targetIndex:
\* ti} by c reaches giveCardAfterMatch with two players who hold hands and a
\* slot of t's hand.
GiveReaches(c, t, ti) ==
    /\ CanSend(c)
    /\ Sender(c).gameState # NoGame
    /\ ~isProtectedPlayer(Sender(c), t)
    /\ c \in DOMAIN Sender(c).gameState.hands
    /\ t \in DOMAIN Sender(c).gameState.hands
    /\ t # c
    /\ ti >= 0
    /\ ti < Len(Sender(c).gameState.hands[t])

\* C12: a give-card-after-match from a slot of the caller that holds a card
\* discards the card at the target's slot (the discard pile grows by that one
\* real card), leaves a gap at the caller's slot and puts the given card into
\* the first gap of the target's hand; the caller holds one card less and the
\* target as many as before.  From a gap of the caller it changes nothing.
C12_GiveAfterMatch ==
    \A c \in Conns, t \in Conns, ci \in PairIndices, ti \in PairIndices :
        GiveReaches(c, t, ti) =>
            LET gs == Sender(c).gameState
                new == onGiveCardAfterMatch(Sender(c), c, ci, t, ti)
                ngs == new.gameState
                cleared == SetAt(gs.hands[t], ti, Null)
            IN IF ci >= 0 /\ ci < Len(gs.hands[c]) /\ At(gs.hands[c], ci) # Null
               THEN /\ At(gs.hands[t], ti) # Null
                    /\ ngs.discardPile = Append(gs.discardPile, At(gs.hands[t], ti))
                    /\ ngs.hands[c] = SetAt(gs.hands[c], ci, Null)
                    /\ At(ngs.hands[t], FirstGap(cleared)) = At(gs.hands[c], ci)
                    /\ \A j \in 0..(Len(cleared) - 1) :
                           j # FirstGap(cleared) => At(ngs.hands[t], j) = At(cleared, j)
                    /\ CardsHeld(ngs.hands[c]) = CardsHeld(gs.hands[c]) - 1
                    /\ CardsHeld(ngs.hands[t]) = CardsHeld(gs.hands[t])
                    /\ ngs.deck = gs.deck
               ELSE new = Sender(c)

\* ------------------------------------------------------------ discard-card
\* c holds the turn and the drawn card of its room's game.
HoldsDrawnCard(c) ==
    /\ CanSend(c)
    /\ Sender(c).gameState # NoGame
    /\ isPlayablePhase(Sender(c))
    /\ Sender(c).gameState.drawnCard # Null
    /\ Sender(c).gameState.drawnBy = c
    /\ getCurrentTurnPlayer(Sender(c)) = c

\* The ranks without a rule: A, 2..6, Joker, and the Kings of hearts and
\* diamonds.
HasNoRule(card) ==
    \/ rank(card) \in 1..6
    \/ rank(card) = 14
    \/ rank(card) = 13 /\ suit(card) \in {"hearts", "diamonds"}

\* `new` is `room` with the turn passed on: the next index of turnOrder in
\* play; the next index of redemptionOrder in redemption, and reveal after
\* its last player.
TurnPassed(room, new) ==
    LET gs == room.gameState
        ngs == new.gameState
    IN IF gs.phase = "redemption"
       THEN /\ ngs.redemptionIndex = gs.redemptionIndex + 1
            /\ ngs.turnIndex = gs.turnIndex
            /\ ngs.phase = IF gs.redemptionIndex + 1 >= Len(gs.redemptionOrder)
                           THEN "reveal" ELSE "redemption"
       ELSE /\ ngs.turnIndex = (gs.turnIndex + 1) % Len(gs.turnOrder)
            /\ ngs.redemptionIndex = gs.redemptionIndex
            /\ ngs.phase = gs.phase

\* `new` is `room` with the turn where it was.
TurnKept(room, new) ==
    /\ new.gameState.turnIndex = room.gameState.turnIndex
    /\ new.gameState.redemptionIndex = room.gameState.redemptionIndex
    /\ new.gameState.phase = room.gameState.phase

\* The rooms the commands of player s leave of `room`, the follow-up rule
\* commands (use-blind-switch, use-black-king-switch), finish-peek, skip-rule
\* and use-black-king-skip left out, and so the commands that end the game or
\* the player's stay.
NoFollowUp(room, s) ==
    {onDrawCard(room, s), onDiscardCard(room, s), onCallRedKing(room, s), onPeekDone(room, s)}
    \cup {onKeepCard(room, s, i) : i \in HandIndices}
    \cup {onUsePeekOwn(room, s, i) : i \in HandIndices}
    \cup {onCallMatchOwn(room, s, i) : i \in HandIndices}
    \cup {onUsePeekOther(room, s, t, i) : t \in Conns, i \in HandIndices}
    \cup {onCallMatchOther(room, s, t, i) : t \in Conns, i \in HandIndices}
    \cup {onGiveCardAfterMatch(room, s, ci, t, ti) :
              t \in Conns, ci \in PairIndices, ti \in PairIndices}

\* C13: discard-card by the player who drew puts drawnCard on the discard
\* pile and clears drawnCard and drawnBy.  For a card without a rule the turn
\* passes at once.  For a rule card the turn stays with the discarder, and no
\* command but a follow-up rule, finish-peek or skip takes it from them.
C13_DiscardCard ==
    \A c \in Conns :
        HoldsDrawnCard(c) =>
            LET room == Sender(c)
                gs == room.gameState
                new == onDiscardCard(room, c)
                ngs == new.gameState
            IN /\ ngs.discardPile = Append(gs.discardPile, gs.drawnCard)
               /\ ngs.drawnCard = Null
               /\ ngs.drawnBy = Null
               /\ ngs.hands = gs.hands
               /\ ngs.deck = gs.deck
               /\ IF HasNoRule(gs.drawnCard)
                  THEN TurnPassed(room, new)
                  ELSE /\ TurnKept(room, new)
                       /\ getCurrentTurnPlayer(new) = c
                       /\ \A s \in Range(PlayerIds(room)) :
                              \A next \in NoFollowUp(new, s) :
                                  getCurrentTurnPlayer(next) = c

\* --------------------------------------------------------------- keep-card
\* C14: keep-card {handIndex: i} by the player who drew, on a slot that holds
\* a card, puts drawnCard into the slot, the slot's card on the discard pile,
\* clears drawnCard and drawnBy and passes the turn; on a gap, out of range,
\* or from a player who did not draw it changes nothing.
C14_KeepCard ==
    \A c \in Conns, i \in HandIndices :
        (CanSend(c) /\ Sender(c).gameState # NoGame) =>
            LET room == Sender(c)
                gs == room.gameState
                new == onKeepCard(room, c, i)
                ngs == new.gameState
            IN IF /\ gs.drawnCard # Null
                  /\ gs.drawnBy = c
                  /\ i >= 0
                  /\ i < Len(gs.hands[c])
                  /\ At(gs.hands[c], i) # Null
               THEN /\ At(ngs.hands[c], i) = gs.drawnCard
                    /\ Len(ngs.hands[c]) = Len(gs.hands[c])
                    /\ \A j \in 0..(Len(gs.hands[c]) - 1) :
                           j # i => At(ngs.hands[c], j) = At(gs.hands[c], j)
                    /\ \A p \in DOMAIN gs.hands : p # c => ngs.hands[p] = gs.hands[p]
                    /\ DOMAIN ngs.hands = DOMAIN gs.hands
                    /\ ngs.discardPile = Append(gs.discardPile, At(gs.hands[c], i))
                    /\ ngs.deck = gs.deck
                    /\ ngs.drawnCard = Null
                    /\ ngs.drawnBy = Null
                    /\ TurnPassed(room, new)
               ELSE new = room

\* Three commands after the first whole turn: the other player has matched
\* their slot 0 and the host, having drawn the next card of the deck, has
\* kept it in slot 1; the card that was there tops the discard pile and the
\* turn has passed.
C14_Witness ==
    \E code \in GameRooms :
        LET gs == rooms[code].gameState IN
        /\ gs.phase = "play"
        /\ budget = MidSteps - 3
        /\ gs.drawnCard = Null
        /\ gs.drawnBy = Null
        /\ gs.turnIndex = 0
        /\ gs.discardPile = <<ShuffleBack(1)[2], ShuffleFront(1)[5], ShuffleFront(1)[2]>>
        /\ \E p \in DOMAIN gs.hands :
               /\ Len(gs.hands[p]) = HandSize
               /\ gs.hands[p][1] = ShuffleFront(1)[1]
               /\ gs.hands[p][2] = ShuffleBack(1)[1]

\* -------------------------------------------------------------- empty deck
\* C15: a draw-card by the current turn player of a game in play or
\* redemption whose deck is empty draws no card and passes the turn.
C15_EmptyDeck ==
    \A c \in Conns :
        (/\ CanSend(c)
         /\ Sender(c).gameState # NoGame
         /\ isPlayablePhase(Sender(c))
         /\ getCurrentTurnPlayer(Sender(c)) = c
         /\ Sender(c).gameState.drawnCard = Null
         /\ Sender(c).gameState.deck = <<>>)
            => LET new == onDrawCard(Sender(c), c)
               IN /\ new.gameState.drawnCard = Null
                  /\ new.gameState.deck = <<>>
                  /\ TurnPassed(Sender(c), new)

\* ----------------------------------------------------------------- scoring
\* The points of a card: Joker 0, Ace 1, 2..10 their number, Jack and Queen
\* 10, King of clubs or spades 10, King of hearts or diamonds -1.
PointValue(card) ==
    CASE rank(card) = 14 -> 0
      [] rank(card) \in 1..10 -> rank(card)
      [] rank(card) \in {11, 12} -> 10
      [] rank(card) = 13 /\ suit(card) \in {"clubs", "spades"} -> 10
      [] rank(card) = 13 /\ suit(card) \in {"hearts", "diamonds"} -> -1

\* The points of the first n slots of a hand, gaps counting 0.
RECURSIVE PointsOfSlots(_, _)
PointsOfSlots(hand, n) ==
    IF n = 0 THEN 0
    ELSE PointsOfSlots(hand, n - 1) + (IF hand[n] = Null THEN 0 ELSE PointValue(hand[n]))

\* The rooms whose game is at reveal.
RevealRooms == {code \in GameRooms : rooms[code].gameState.phase = "reveal"}

\* C16: at reveal getGameResults reports every player who holds a hand once,
\* with the sum of the point values of the hand's cards as the score.
C16_Scoring ==
    \A code \in RevealRooms :
        LET gs == rooms[code].gameState
            report == getGameResults(rooms[code])
        IN /\ ~report.threw
           /\ \A p \in DOMAIN gs.hands :
                  \E i \in 1..Len(report.results) :
                      /\ report.results[i].id = p
                      /\ report.results[i].score = PointsOfSlots(gs.hands[p], Len(gs.hands[p]))
                      /\ \A j \in 1..Len(report.results) :
                             report.results[j].id = p => j = i

\* The redemption round of the first deal is over: the host holds the four
\* Kings (18 points), the other player has a gap where the matched Jack was
\* (29 points).
C16_Witness ==
    \E code \in RevealRooms :
        LET gs == rooms[code].gameState
            report == getGameResults(rooms[code])
        IN \E p \in DOMAIN gs.hands, q \in DOMAIN gs.hands :
               /\ gs.hands[p] = <<Card("hearts", 13), Card("diamonds", 13),
                                  Card("clubs", 13), Card("spades", 13)>>
               /\ gs.hands[q] = <<Null, Card("hearts", 12), Card("hearts", 10), Card("hearts", 9)>>
               /\ \E i, j \in 1..Len(report.results) :
                      /\ report.results[i].id = p /\ report.results[i].score = 18
                      /\ report.results[j].id = q /\ report.results[j].score = 29

\* C17: the winner getGameResults names at reveal has the lowest score of the
\* players who hold a hand, the results are in ascending order of score, and
\* a Red King caller who shares the lowest score with another player does not
\* win.
C17_Winner ==
    \A code \in RevealRooms :
        LET gs == rooms[code].gameState
            report == getGameResults(rooms[code])
            score == [p \in DOMAIN gs.hands |-> PointsOfSlots(gs.hands[p], Len(gs.hands[p]))]
        IN /\ report.winnerId \in DOMAIN gs.hands
           /\ \A p \in DOMAIN gs.hands : score[report.winnerId] <= score[p]
           /\ \A i \in 1..(Len(report.results) - 1) :
                  report.results[i].score <= report.results[i + 1].score
           /\ (\E p \in DOMAIN gs.hands :
                   /\ p # gs.redKingCaller
                   /\ gs.redKingCaller \in DOMAIN gs.hands
                   /\ score[p] = score[gs.redKingCaller]
                   /\ \A q \in DOMAIN gs.hands : score[p] <= score[q])
                  => report.winnerId # gs.redKingCaller

\* The redemption round of the second deal is over with both players at 6
\* points: the winner is the player who did not call Red King.
C17_Witness ==
    \E code \in RevealRooms :
        LET gs == rooms[code].gameState
            report == getGameResults(rooms[code])
        IN /\ Len(report.results) = 2
           /\ report.results[1].score = 6
           /\ report.results[2].score = 6
           /\ report.results[1].id = gs.redKingCaller
           /\ report.winnerId = report.results[2].id

\* -------------------------------------------------------------- start-game
\* `new` is `room` freshly dealt: playing, at peek, 4 cards in every player's
\* hand, the other 54 - 4n cards in the deck, nothing discarded or drawn.
FreshlyDealt(room, new) ==
    LET ngs == new.gameState
        n == Len(room.players)
    IN /\ new.state = "playing"
       /\ new.players = room.players
       /\ new.hostId = room.hostId
       /\ ngs # NoGame
       /\ ngs.phase = "peek"
       /\ DOMAIN ngs.hands = Range(PlayerIds(room))
       /\ \A p \in DOMAIN ngs.hands :
              /\ Len(ngs.hands[p]) = HandSize
              /\ \A j \in 1..HandSize : ngs.hands[p][j] \in Cards
       /\ Len(ngs.deck) = DeckSize - HandSize * n
       /\ \A card \in Cards : CardCount(ngs, card) = 1
       /\ ngs.discardPile = <<>>
       /\ ngs.drawnCard = Null
       /\ ngs.drawnBy = Null

\* C18: start-game from the host of a waiting room deals a fresh game; from
\* another player, or to a room that is not waiting, it changes nothing.
C18_StartGame ==
    \A c \in Conns, k \in Shuffles :
        CanSend(c) =>
            IF Sender(c).hostId = c /\ Sender(c).state = "waiting"
            THEN FreshlyDealt(Sender(c), onStartGame(Sender(c), c, k))
            ELSE onStartGame(Sender(c), c, k) = Sender(c)

\* ---------------------------------------------------------------- end-game
\* C19: end-game from the host leaves the room waiting and without a game;
\* from a player who is not the host it changes neither.
C19_EndGame ==
    \A c \in Conns :
        CanSend(c) =>
            LET new == onEndGame(Sender(c), c)
            IN IF Sender(c).hostId = c
               THEN new.state = "waiting" /\ new.gameState = NoGame
               ELSE new.state = Sender(c).state /\ new.gameState = Sender(c).gameState

\* --------------------------------------------------------------- join-game
\* join-game {roomCode: code, playerName: name} from c is refused: no such
\* room, a room that is playing, a room of 8, a name in use, or c in the room.
JoinRefused(c, code, name) ==
    \/ code \notin DOMAIN rooms
    \/ /\ code \in DOMAIN rooms
       /\ \/ rooms[code].state = "playing"
          \/ Len(rooms[code].players) >= 8
          \/ \E i \in 1..Len(rooms[code].players) : rooms[code].players[i].name = name
          \/ \E i \in 1..Len(rooms[code].players) : rooms[code].players[i].id = c

KnownIds ==
    DOMAIN playerRoomMap
        \cup UNION {Range(PlayerIds(rooms[code])) : code \in DOMAIN rooms}

\* The rooms whose player list holds the connection id.
RoomsOf(id) == {code \in DOMAIN rooms : id \in Range(PlayerIds(rooms[code]))}

\* C21: the lookup maps a connection id to a room code exactly when the id is
\* in the player list of that room, and no connection id is in the player
\* list of two rooms.
C21_RegistryConsistency ==
    \A id \in KnownIds :
        /\ \A code \in LobbyCodes :
               (id \in DOMAIN playerRoomMap /\ playerRoomMap[id] = code)
                   <=> code \in RoomsOf(id)
        /\ Cardinality(RoomsOf(id)) <= 1

\* The connection is the only player the room lists.
LastPlayer(id, code) == PlayerIds(rooms[code]) = <<id>>

\* C22: every room of the registry has a player and is stored under its own
\* code, and a leave-room or a disconnect of the last player of a room takes
\* the room out of the registry.
C22_RoomLifecycle ==
    /\ \A code \in DOMAIN rooms :
           /\ rooms[code].code = code
           /\ Len(rooms[code].players) >= 1
    /\ \A c \in Conns, code \in DOMAIN rooms :
           sockets[c] = "open" /\ LastPlayer(c, code)
               => code \notin DOMAIN onLeave(Reg, c).rooms

\* The players flagged as host, by position in the list.
HostFlags(room) == {i \in 1..Len(room.players) : room.players[i].isHost}

\* The room has one host: one flagged player, whose id is hostId.
OneHost(room) ==
    /\ Cardinality(HostFlags(room)) = 1
    /\ \A i \in HostFlags(room) : room.players[i].id = room.hostId

\* The players that stay when the connection goes, in the order they joined.
Remaining(room, id) == Filter(room.players, {p \in Range(room.players) : p.id # id})

\* C23: every room has exactly one player flagged as host, whose id is the
\* room's hostId; when the host of a room with other players leaves or
\* disconnects, the first of the remaining players is the host afterwards.
C23_HostInvariant ==
    /\ \A code \in DOMAIN rooms : OneHost(rooms[code])
    /\ \A c \in Conns, code \in DOMAIN rooms :
           LET room == rooms[code]
               new == onLeave(Reg, c).rooms
           IN
           sockets[c] = "open" /\ room.hostId = c /\ Len(Remaining(room, c)) > 0
               => /\ code \in DOMAIN new
                  /\ OneHost(new[code])
                  /\ new[code].hostId = Remaining(room, c)[1].id
                  /\ PlayerIds(new[code]) = PlayerIds([players |-> Remaining(room, c)])

\* ------------------------------------------------------------- the events
\* An emitted event: its name, the connections it is delivered to, the cards
\* its payload names, and the players whose whole hand its payload carries.
Event(name, to, cards, hands) ==
    [event |-> name, to |-> to, cards |-> cards, hands |-> hands]

\* socket.emit: the sender alone.
ToSocket(socketId) == {socketId}

\* io.to(room.code).emit: every player of the room.
ToRoom(room) == Range(PlayerIds(room))

\* use-peek-own: the card to the sender, the action-log line to the room.
emitUsePeekOwn(room, socketId, handIndex) ==
    IF room = NoRoom \/ room.gameState = NoGame THEN <<>>
    ELSE IF peekOwnCard(room, socketId, handIndex) = Null THEN <<>>
    ELSE << Event("peek-result", ToSocket(socketId),
                  {peekOwnCard(room, socketId, handIndex)}, {}),
            Event("action-log", ToRoom(room), {}, {}) >>

\* A faulty use-peek-other handler: the peeked card goes to the room.
emitUsePeekOtherToRoom(room, socketId, targetPlayerId, handIndex) ==
    IF room = NoRoom \/ room.gameState = NoGame THEN <<>>
    ELSE IF isProtectedPlayer(room, targetPlayerId) THEN <<>>
    ELSE IF peekOtherCard(room, targetPlayerId, handIndex) = Null THEN <<>>
    ELSE << Event("peek-result", ToRoom(room),
                  {peekOtherCard(room, targetPlayerId, handIndex)}, {}),
            Event("action-log", ToRoom(room), {}, {}) >>

\* use-peek-other: the card to the sender, the action-log line to the room.
emitUsePeekOther(room, socketId, targetPlayerId, handIndex) ==
    IF room = NoRoom \/ room.gameState = NoGame THEN <<>>
    ELSE IF isProtectedPlayer(room, targetPlayerId) THEN <<>>
    ELSE IF peekOtherCard(room, targetPlayerId, handIndex) = Null THEN <<>>
    ELSE << Event("peek-result", ToSocket(socketId),
                  {peekOtherCard(room, targetPlayerId, handIndex)}, {}),
            Event("action-log", ToRoom(room), {}, {}) >>

\* use-black-king-peek: both cards to the sender, the action-log line to the
\* room.
emitUseBlackKingPeek(room, socketId, target1PlayerId, index1, target2PlayerId, index2) ==
    IF room = NoRoom \/ room.gameState = NoGame THEN <<>>
    ELSE IF isProtectedPlayer(room, target1PlayerId)
            \/ isProtectedPlayer(room, target2PlayerId) THEN <<>>
    ELSE IF ~blackKingPeek(room, target1PlayerId, index1, target2PlayerId, index2) THEN <<>>
    ELSE << Event("black-king-peek-result", ToSocket(socketId),
                  {At(room.gameState.hands[target1PlayerId], index1),
                   At(room.gameState.hands[target2PlayerId], index2)}, {}),
            Event("action-log", ToRoom(room), {}, {}) >>

\* The events of a list that name one of the cards.
Naming(events, cards) == {e \in Range(events) : e.cards \cap cards # {}}

\* The slot holds a card that use-peek-other or use-black-king-peek may show.
Peekable(room, targetPlayerId, handIndex) ==
    /\ room.gameState # NoGame
    /\ ~isProtectedPlayer(room, targetPlayerId)
    /\ peekOtherCard(room, targetPlayerId, handIndex) # Null

\* C24: a use-peek-other or a use-black-king-peek that succeeds emits one
\* event that names the peeked cards, to the sender alone; no event of the
\* command that reaches the target or anybody else names them.
C24_PeekHidden ==
    \A c \in Conns : CanSend(c) =>
        /\ \A t \in Conns, i \in HandIndices :
               LET events == emitUsePeekOther(Sender(c), c, t, i) IN
               IF Peekable(Sender(c), t, i)
               THEN LET card == peekOtherCard(Sender(c), t, i) IN
                    /\ Cardinality(Naming(events, {card})) = 1
                    /\ \A e \in Naming(events, {card}) : e.to = {c} /\ e.cards = {card}
                    /\ \A e \in Range(events) : e.cards \subseteq {card}
               ELSE events = <<>>
        /\ \A t1, t2 \in Conns, i1, i2 \in PairIndices :
               LET events == emitUseBlackKingPeek(Sender(c), c, t1, i1, t2, i2) IN
               IF Peekable(Sender(c), t1, i1) /\ Peekable(Sender(c), t2, i2)
               THEN LET cards == {peekOtherCard(Sender(c), t1, i1),
                                  peekOtherCard(Sender(c), t2, i2)}
                    IN
                    /\ Cardinality(Naming(events, cards)) = 1
                    /\ \A e \in Naming(events, cards) : e.to = {c} /\ e.cards = cards
                    /\ \A e \in Range(events) : e.cards \subseteq cards
               ELSE events = <<>>

\* A player whose turn it is has discarded a 9 or a 10 and may peek at a card
\* of another player, who is in the room to see the events that go to it.
C24_Witness ==
    \E c \in Conns : CanSend(c) /\ Sender(c).gameState # NoGame /\
        LET room == Sender(c) IN
        /\ room.gameState.phase = "play"
        /\ getCurrentTurnPlayer(room) = c
        /\ getRuleType(getTopDiscard(room)) = "peek-other"
        /\ room.gameState.drawnCard = Null
        /\ \E t \in ToRoom(room) \ {c} : Peekable(room, t, 0)

\* The cards a hand-carrying payload holds.
HandCards(hand) == Range(hand) \ {Null}

\* An event with myCards: the hand of the player as the room has it.
HandEvent(name, room, playerId) ==
    Event(name, ToSocket(playerId), HandCards(room.gameState.hands[playerId]), {playerId})

\* start-game: cards-dealt to each player with that player's hand, then
\* game-started to the room.
emitStartGame(room, socketId, k) ==
    IF room = NoRoom \/ room.hostId # socketId THEN <<>>
    ELSE LET updatedRoom == onStartGame(room, socketId, k) IN
         [i \in 1..Len(updatedRoom.players) |->
             HandEvent("cards-dealt", updatedRoom, updatedRoom.players[i].id)]
         \o << Event("game-started", ToRoom(updatedRoom), {}, {}) >>

\* A faulty draw-card handler: the drawn card goes to the room.
emitDrawCardToRoom(room, socketId) ==
    IF room = NoRoom \/ room.gameState = NoGame THEN <<>>
    ELSE IF ~isPlayablePhase(room) \/ ~drawCard(room, socketId).ok THEN <<>>
    ELSE << Event("card-drawn", ToRoom(room),
                  {drawCard(room, socketId).room.gameState.drawnCard}, {}),
            Event("opponent-drew", ToRoom(room) \ {socketId}, {}, {}) >>

\* draw-card: card-drawn to the sender, opponent-drew to the others.
emitDrawCard(room, socketId) ==
    IF room = NoRoom \/ room.gameState = NoGame THEN <<>>
    ELSE IF ~isPlayablePhase(room) \/ ~drawCard(room, socketId).ok THEN <<>>
    ELSE << Event("card-drawn", ToSocket(socketId),
                  {drawCard(room, socketId).room.gameState.drawnCard}, {}),
            Event("opponent-drew", ToRoom(room) \ {socketId}, {}, {}) >>

\* keep-card: hand-updated to the sender, card-discarded to the room.
emitKeepCard(room, socketId, handIndex) ==
    IF room = NoRoom \/ room.gameState = NoGame THEN <<>>
    ELSE IF ~keepCard(room, socketId, handIndex).ok THEN <<>>
    ELSE LET kept == keepCard(room, socketId, handIndex).room IN
         << HandEvent("hand-updated", kept, socketId),
            Event("card-discarded", ToRoom(room), {getTopDiscard(kept)} \ {Null}, {}) >>

\* use-blind-switch: hand-updated to the owner of either hand.
emitUseBlindSwitch(room, socketId, playerAId, indexA, playerBId, indexB) ==
    IF room = NoRoom \/ room.gameState = NoGame THEN <<>>
    ELSE IF isProtectedPlayer(room, playerAId) \/ isProtectedPlayer(room, playerBId) THEN <<>>
    ELSE IF ~blindSwitch(room, playerAId, indexA, playerBId, indexB).ok THEN <<>>
    ELSE LET switched == blindSwitch(room, playerAId, indexA, playerBId, indexB).room IN
         << HandEvent("hand-updated", switched, playerAId),
            HandEvent("hand-updated", switched, playerBId),
            Event("action-log", ToRoom(room), {}, {}) >>

\* use-black-king-switch emits what use-blind-switch emits.
emitUseBlackKingSwitch(room, socketId, playerAId, indexA, playerBId, indexB) ==
    emitUseBlindSwitch(room, socketId, playerAId, indexA, playerBId, indexB)

\* call-match-own: hand-updated to the sender; match-result to the room names
\* the revealed card.
emitCallMatchOwn(room, socketId, handIndex) ==
    IF room = NoRoom \/ room.gameState = NoGame THEN <<>>
    ELSE IF ~isPlayablePhase(room) \/ isProtectedPlayer(room, socketId) THEN <<>>
    ELSE IF ~callMatchOwn(room, socketId, handIndex).ok THEN <<>>
    ELSE << HandEvent("hand-updated", callMatchOwn(room, socketId, handIndex).room, socketId),
            Event("match-result", ToRoom(room),
                  {At(room.gameState.hands[socketId], handIndex)}, {}) >>

\* call-match-other: match-result to the room names the target's card; a
\* wrong call also sends hand-updated to the sender.
emitCallMatchOther(room, socketId, targetPlayerId, handIndex) ==
    IF room = NoRoom \/ room.gameState = NoGame THEN <<>>
    ELSE IF ~isPlayablePhase(room) THEN <<>>
    ELSE IF isProtectedPlayer(room, targetPlayerId) \/ isProtectedPlayer(room, socketId) THEN <<>>
    ELSE IF ~callMatchOther(room, socketId, targetPlayerId, handIndex).ok THEN <<>>
    ELSE LET card == At(room.gameState.hands[targetPlayerId], handIndex)
             result == Event("match-result", ToRoom(room), {card}, {})
         IN IF cardsMatchByRank(card, getTopDiscard(room)) THEN << result >>
            ELSE << HandEvent("hand-updated",
                              callMatchOther(room, socketId, targetPlayerId, handIndex).room,
                              socketId),
                    result >>

\* give-card-after-match: hand-updated to the sender and to the target,
\* card-discarded to the room.
emitGiveCardAfterMatch(room, socketId, callerHandIndex, targetPlayerId, targetIndex) ==
    IF room = NoRoom \/ room.gameState = NoGame THEN <<>>
    ELSE IF isProtectedPlayer(room, targetPlayerId) THEN <<>>
    ELSE IF ~giveCardAfterMatch(room, socketId, callerHandIndex, targetPlayerId, targetIndex).ok
         THEN <<>>
    ELSE LET given == giveCardAfterMatch(room, socketId, callerHandIndex,
                                         targetPlayerId, targetIndex).room
         IN << HandEvent("hand-updated", given, socketId),
               HandEvent("hand-updated", given, targetPlayerId),
               Event("card-discarded", ToRoom(room), {getTopDiscard(given)} \ {Null}, {}) >>

\* The events that carry a hand or the drawn card.
PrivateEvents(events) ==
    {e \in Range(events) :
        e.event \in {"cards-dealt", "hand-updated", "card-drawn"} \/ e.hands # {}}

\* Every private event of the list goes to one connection: card-drawn to the
\* sender, a hand to the player who holds it in the room the command leaves.
OwnersOnly(events, new, socketId) ==
    \A e \in PrivateEvents(events) :
        IF e.event = "card-drawn"
        THEN e.to = {socketId} /\ new.gameState.drawnBy = socketId
             /\ e.cards = {new.gameState.drawnCard}
        ELSE \E p \in DOMAIN new.gameState.hands :
                 /\ e.hands = {p} /\ e.to = {p}
                 /\ e.cards = HandCards(new.gameState.hands[p])

\* C25: every cards-dealt, hand-updated and card-drawn event that start-game,
\* draw-card, keep-card, the two switches, the two match calls and
\* give-card-after-match emit is delivered to the owner of the hand (to the
\* drawer, for card-drawn) and to nobody else.
C25_PrivateHands ==
    \A c \in Conns : CanSend(c) =>
        LET room == Sender(c) IN
        /\ \A k \in Shuffles :
               OwnersOnly(emitStartGame(room, c, k), onStartGame(room, c, k), c)
        /\ OwnersOnly(emitDrawCard(room, c), onDrawCard(room, c), c)
        /\ \A i \in HandIndices :
               /\ OwnersOnly(emitKeepCard(room, c, i), onKeepCard(room, c, i), c)
               /\ OwnersOnly(emitCallMatchOwn(room, c, i), onCallMatchOwn(room, c, i), c)
        /\ \A a, b \in Conns, i, j \in PairIndices :
               /\ OwnersOnly(emitUseBlindSwitch(room, c, a, i, b, j),
                             onUseBlindSwitch(room, c, a, i, b, j), c)
               /\ OwnersOnly(emitUseBlackKingSwitch(room, c, a, i, b, j),
                             onUseBlackKingSwitch(room, c, a, i, b, j), c)
        /\ \A t \in Conns, i \in PairIndices :
               /\ OwnersOnly(emitCallMatchOther(room, c, t, i), onCallMatchOther(room, c, t, i), c)
               /\ \A j \in PairIndices :
                      OwnersOnly(emitGiveCardAfterMatch(room, c, i, t, j),
                                 onGiveCardAfterMatch(room, c, i, t, j), c)

\* A player holds the card just drawn while another player is in the room,
\* and each of the commands has a private event to emit.
C25_Witness ==
    \E c \in Conns : CanSend(c) /\ Sender(c).gameState # NoGame /\
        LET room == Sender(c) IN
        /\ room.gameState.phase = "play"
        /\ room.gameState.drawnBy = c /\ room.gameState.drawnCard # Null
        /\ ToRoom(room) \ {c} # {}
        /\ PrivateEvents(emitKeepCard(room, c, 0)) # {}
        /\ \E t \in ToRoom(room) \ {c} :
               /\ PrivateEvents(emitUseBlindSwitch(room, c, c, 0, t, 0)) # {}
               /\ PrivateEvents(emitGiveCardAfterMatch(room, c, 0, t, 0)) # {}
               /\ PrivateEvents(emitCallMatchOther(room, c, t, 0)) # {}

\* ------------------------------------------------------------- the phases
\* The parts of a game that a gameplay command may write.
Table(room) ==
    LET gs == room.gameState IN
    <<gs.hands, gs.deck, gs.discardPile, gs.drawnCard, gs.turnIndex,
      gs.redemptionIndex, gs.phase>>

\* The rooms a gameplay command of the connection may leave, over the
\* payloads it may send.
AfterGameplay(room, c) ==
    {onDrawCard(room, c), onDiscardCard(room, c), onSkipRule(room, c),
     onFinishPeek(room, c), onUseBlackKingSkip(room, c), onCallRedKing(room, c)}
    \cup {onKeepCard(room, c, i) : i \in HandIndices}
    \cup {onCallMatchOwn(room, c, i) : i \in HandIndices}
    \cup {onUsePeekOwn(room, c, i) : i \in HandIndices}
    \cup {onUsePeekOther(room, c, t, i) : t \in Conns, i \in HandIndices}
    \cup {onCallMatchOther(room, c, t, i) : t \in Conns, i \in HandIndices}
    \cup UNION {{onUseBlindSwitch(room, c, a, i, b, j),
                 onUseBlackKingSwitch(room, c, a, i, b, j),
                 onUseBlackKingPeek(room, c, a, i, b, j)} :
                    a \in Conns, i \in PairIndices, b \in Conns, j \in PairIndices}
    \cup {onGiveCardAfterMatch(room, c, i, t, j) :
              i \in PairIndices, t \in Conns, j \in PairIndices}

\* C26: while the phase is peek or reveal, no gameplay command changes the
\* hands, the deck, the discard pile, the drawn card, the turn index, the
\* redemption index or the phase.
C26_WrongPhase ==
    \A c \in Conns : CanSend(c) /\ Sender(c).gameState # NoGame =>
        (Sender(c).gameState.phase \in {"peek", "reveal"}
            => \A new \in AfterGameplay(Sender(c), c) : Table(new) = Table(Sender(c)))

\* ---------------------------------------------------------------- the turn
\* The turn has passed and nobody holds a drawn card.
TurnEnded(room, new) ==
    /\ TurnPassed(room, new)
    /\ new.gameState.drawnCard = Null
    /\ new.gameState.drawnBy = Null

\* The rooms that keep-card, a discard-card that opens no rule,
\* use-blind-switch and use-black-king-switch may leave: the command is
\* either refused or ends the turn.
AfterTurnEnding(room, c) ==
    {onKeepCard(room, c, i) : i \in HandIndices}
    \cup (IF HasNoRule(room.gameState.drawnCard) THEN {onDiscardCard(room, c)} ELSE {})
    \cup UNION {{onUseBlindSwitch(room, c, a, i, b, j),
                 onUseBlackKingSwitch(room, c, a, i, b, j)} :
                    a \in Conns, i \in PairIndices, b \in Conns, j \in PairIndices}

OthersPeeked(room, id) ==
    \A p \in Range(Remaining(room, id)) : p.id \in room.gameState.peekDone

\* C28: when a player leaves or disconnects from a game in the peek phase in
\* which others stay, the peek-done of the player who left is dropped and
\* everybody else's is kept, and the game is in play after the leave exactly
\* when every player who stays has sent peek-done; so the leave of the one
\* player who had not sent peek-done starts the play.
C28_PeekOnLeave ==
    \A c \in Conns :
        (/\ CanSend(c)
         /\ Sender(c).gameState # NoGame
         /\ Sender(c).gameState.phase = "peek"
         /\ Len(Remaining(Sender(c), c)) > 0)
        => LET room == Sender(c)
               new == onLeave(Reg, c).rooms[room.code]
           IN /\ new.gameState.peekDone = room.gameState.peekDone \ {c}
              /\ new.gameState.phase = IF OthersPeeked(room, c) THEN "play" ELSE "peek"
              /\ (c \notin room.gameState.peekDone /\ OthersPeeked(room, c)
                     => new.gameState.phase = "play")

\* Two of three players have sent peek-done; the third, who has not, is
\* about to leave, and one of the two may leave instead.
C28_Witness ==
    \E c \in Conns : CanSend(c) /\ Sender(c).gameState # NoGame /\
        LET room == Sender(c) IN
        /\ room.gameState.phase = "peek"
        /\ Len(room.players) = 3
        /\ c \notin room.gameState.peekDone
        /\ OthersPeeked(room, c)
        /\ onLeave(Reg, c).rooms[room.code].gameState.phase = "play"
        /\ \E d \in Range(PlayerIds(room)) \ {c} :
               onLeave(Reg, d).rooms[room.code].gameState.phase = "peek"

\* ----------------------------------------------------------- the peeks
\* C29: use-peek-own, use-peek-other and use-black-king-peek leave the game
\* as it is, whether they show a card or not: no hand, deck, discard pile,
\* turn index or phase changes.  The finish-peek or use-black-king-skip that
\* follows ends the turn once, and so does a use-black-king-switch that is
\* not refused.
C29_PeekReadOnly ==
    \A c \in Conns : CanSend(c) /\ Sender(c).gameState # NoGame =>
        LET room == Sender(c) IN
        /\ \A i \in HandIndices :
               /\ onUsePeekOwn(room, c, i) = room
               /\ isPlayablePhase(room) => TurnEnded(room, onFinishPeek(onUsePeekOwn(room, c, i), c))
        /\ \A t \in Conns, i \in HandIndices :
               /\ onUsePeekOther(room, c, t, i) = room
               /\ isPlayablePhase(room)
                      => TurnEnded(room, onFinishPeek(onUsePeekOther(room, c, t, i), c))
        /\ \A a, b \in Conns, i, j \in PairIndices :
               LET peeked == onUseBlackKingPeek(room, c, a, i, b, j)
                   switched == onUseBlackKingSwitch(peeked, c, a, i, b, j)
               IN /\ peeked = room
                  /\ isPlayablePhase(room) =>
                         /\ TurnEnded(room, onUseBlackKingSkip(peeked, c))
                         /\ switched # peeked => TurnEnded(room, switched)

\* The player whose turn it is has discarded a black King and may look at
\* a card of each hand before switching them or not.
C29_Witness ==
    \E c \in Conns : CanSend(c) /\ Sender(c).gameState # NoGame /\
        LET room == Sender(c) IN
        /\ room.gameState.phase = "play"
        /\ getCurrentTurnPlayer(room) = c
        /\ getRuleType(getTopDiscard(room)) = "black-king"
        /\ room.gameState.drawnCard = Null
        /\ \E t \in ToRoom(room) \ {c} :
               /\ emitUseBlackKingPeek(room, c, c, 0, t, 0) # <<>>
               /\ onUseBlackKingSwitch(room, c, c, 0, t, 0) # room

\* ------------------------------------------------------- the blind switch
\* The slot exists and holds a card.
HoldsCard(room, playerId, index) ==
    /\ playerId \in DOMAIN room.gameState.hands
    /\ index >= 0 /\ index < Len(room.gameState.hands[playerId])
    /\ At(room.gameState.hands[playerId], index) # Null

\* The hands with the cards of the two slots exchanged and every other slot
\* as it is.
Exchanged(hands, a, i, b, j) ==
    [p \in DOMAIN hands |->
        [k \in 1..Len(hands[p]) |->
            IF p = a /\ k = i + 1 THEN hands[b][j + 1]
            ELSE IF p = b /\ k = j + 1 THEN hands[a][i + 1]
            ELSE hands[p][k]]]

\* C30: blindSwitch on two slots that hold a card, of two hands or of one,
\* exchanges the two cards and changes nothing else of the game, and a second
\* blindSwitch on the same slots gives back the game as it was; on a gap, an
\* index out of range or a player without hand it changes nothing.  The hands
\* use-blind-switch leaves are those of blindSwitch, or the hands as they
\* were when the command is refused.
C30_BlindSwitch ==
    \A code \in GameRooms :
        LET room == rooms[code]
            gs == room.gameState
        IN
        \A a, b \in Conns, i, j \in HandIndices :
            LET result == blindSwitch(room, a, i, b, j) IN
            /\ IF HoldsCard(room, a, i) /\ HoldsCard(room, b, j)
               THEN /\ result.ok
                    /\ result.room =
                           [room EXCEPT !.gameState.hands = Exchanged(gs.hands, a, i, b, j)]
                    /\ blindSwitch(result.room, a, i, b, j) = Ret(room, TRUE)
               ELSE result = Ret(room, FALSE)
            /\ \A c \in Range(PlayerIds(room)) :
                   LET new == onUseBlindSwitch(room, c, a, i, b, j) IN
                   /\ new.gameState.hands \in {gs.hands, result.room.gameState.hands}
                   /\ new.gameState.deck = gs.deck
                   /\ new.gameState.discardPile = gs.discardPile

\* Two hands, one of them with a gap: a switch between the hands, a switch
\* within one hand, and a switch that names the gap.
C30_Witness ==
    \E code \in GameRooms :
        LET room == rooms[code] IN
        \E a, b \in DOMAIN room.gameState.hands :
            /\ a # b
            /\ blindSwitch(room, a, 0, b, 0).ok
            /\ blindSwitch(room, a, 0, b, 0).room # room
            /\ blindSwitch(room, a, 0, a, 1).room # room
            /\ \E j \in 0..3 :
                   /\ j < Len(room.gameState.hands[b])
                   /\ At(room.gameState.hands[b], j) = Null
                   /\ ~blindSwitch(room, a, 0, b, j).ok

\* ------------------------------------------------------ leaving a game
\* turnIndex is an index of turnOrder.
ValidTurn(gs) == gs.turnIndex >= 0 /\ gs.turnIndex < Len(gs.turnOrder)

\* The ids of seq other than id, in the order of seq.
Without(seq, id) == SelectSeq(seq, LAMBDA x : x # id)

\* C31: when a player leaves a game in which others stay, the hand and the
\* peekDone entry of that player are gone and the other hands are as they
\* were, turnOrder holds the players that stay in the order they had, and
\* turnIndex is an index of turnOrder; turnIndex is an index of turnOrder in
\* every game in the play phase.
C31_LeaveMidGame ==
    /\ \A c \in Conns :
           (/\ CanSend(c)
            /\ Sender(c).gameState # NoGame
            /\ Len(Remaining(Sender(c), c)) > 0)
           => LET room == Sender(c)
                  gs == room.gameState
                  new == onLeave(Reg, c).rooms[room.code].gameState
              IN /\ DOMAIN new.hands = DOMAIN gs.hands \ {c}
                 /\ \A p \in DOMAIN new.hands : new.hands[p] = gs.hands[p]
                 /\ new.peekDone = gs.peekDone \ {c}
                 /\ new.turnOrder = Without(gs.turnOrder, c)
                 /\ Range(new.turnOrder) = Range(PlayerIds([players |-> Remaining(room, c)]))
                 /\ ValidTurn(new)
    /\ \A code \in GameRooms :
           rooms[code].gameState.phase = "play" => ValidTurn(rooms[code].gameState)

\* In a game of two in play the turn is with the last player of turnOrder,
\* who is about to leave: turnIndex would be past the end.
C31_Witness ==
    \E c \in Conns : CanSend(c) /\ Sender(c).gameState # NoGame /\
        LET gs == Sender(c).gameState IN
        /\ gs.phase = "play"
        /\ Len(gs.turnOrder) = 2
        /\ gs.turnIndex = 1
        /\ gs.turnOrder[2] = c
        /\ onLeave(Reg, c).rooms[Sender(c).code].gameState.turnIndex = 0

\* ------------------------------------------------- giving without a match
\* The game is as whole turns of draw-card and discard-card have left it:
\* nobody has called a match in it.
NoMatchCalled(room) == \E n \in MidTurns : room = PlayTurns(MidTable, n)

\* C36: give-card-after-match changes a game only after a call-match-other
\* of its sender that hit the slot it names: in a game in which no match
\* has been called it changes nothing, and it never puts a gap on the
\* discard pile.
C36_GiveNeedsMatch ==
    \A c \in Conns : CanSend(c) /\ Sender(c).gameState # NoGame =>
        \A ci \in PairIndices, t \in Conns, ti \in PairIndices :
            LET room == Sender(c)
                new == onGiveCardAfterMatch(room, c, ci, t, ti)
            IN /\ NoMatchCalled(room) => new = room
               /\ new # room => getTopDiscard(new) # Null

\* ---------------------------------------------------- rules without a card
\* The connection holds the turn of a game in play or redemption, and the
\* card on top of the discard pile, discarded with no card drawn since, has
\* the rule.
RuleOpen(room, c, ruleType) ==
    /\ isPlayablePhase(room)
    /\ getCurrentTurnPlayer(room) = c
    /\ room.gameState.drawnCard = Null
    /\ getRuleType(getTopDiscard(room)) = ruleType

\* C37: use-peek-own, use-peek-other and use-black-king-peek show a card, and
\* use-blind-switch and use-black-king-switch change the game, only when the
\* sender holds the turn and the card on top of the discard pile has the
\* rule of the command.
C37_RuleNeedsCard ==
    \A c \in Conns : CanSend(c) /\ Sender(c).gameState # NoGame =>
        LET room == Sender(c) IN
        /\ \A i \in HandIndices :
               emitUsePeekOwn(room, c, i) # <<>> => RuleOpen(room, c, "peek-own")
        /\ \A t \in Conns, i \in HandIndices :
               emitUsePeekOther(room, c, t, i) # <<>> => RuleOpen(room, c, "peek-other")
        /\ \A a, b \in Conns, i, j \in PairIndices :
               /\ emitUseBlackKingPeek(room, c, a, i, b, j) # <<>>
                      => RuleOpen(room, c, "black-king")
               /\ onUseBlackKingSwitch(room, c, a, i, b, j) # room
                      => RuleOpen(room, c, "black-king")
               /\ onUseBlindSwitch(room, c, a, i, b, j) # room
                      => RuleOpen(room, c, "blind-switch")

\* ------------------------------------------------------ who holds the turn
\* C38: in every game in play or redemption, getCurrentTurnPlayer is a
\* player of the room who has a hand.
C38_TurnPlayerPresent ==
    \A code \in GameRooms :
        isPlayablePhase(rooms[code]) =>
            /\ getCurrentTurnPlayer(rooms[code]) \in Range(PlayerIds(rooms[code]))
            /\ getCurrentTurnPlayer(rooms[code]) \in DOMAIN rooms[code].gameState.hands

\* C39: when a player who does not hold the turn leaves a game in play, the
\* player who holds the turn after the leave is the one who held it before.
C39_LeaveKeepsTurn ==
    \A c \in Conns :
        (/\ CanSend(c)
         /\ Sender(c).gameState # NoGame
         /\ Sender(c).gameState.phase = "play"
         /\ getCurrentTurnPlayer(Sender(c)) # c)
        => getCurrentTurnPlayer(onLeave(Reg, c).rooms[Sender(c).code])
               = getCurrentTurnPlayer(Sender(c))

\* ================================================================ cpuPlayer
\* A CPU player's id is the string 'bot-<n>'; here it is BotBase + n, apart
\* from every connection id.
BotBase == 200

IsBot(id) == id # Null /\ id > BotBase

\* gameState.pendingBotTurn: a game that dealCards has just built has no such
\* field, and an undefined field reads as false.
pendingBotTurn(gs) ==
    IF "pendingBotTurn" \in DOMAIN gs THEN gs.pendingBotTurn ELSE FALSE

setPendingBotTurn(room, v) ==
    [room EXCEPT !.gameState = [pendingBotTurn |-> v] @@ room.gameState]

\* The slots a strategy chooses among: the ones that hold a card.
BotSlots == {0, 3}

validSlots(room, playerId) ==
    IF playerId \in DOMAIN room.gameState.hands
    THEN {i \in BotSlots : At(room.gameState.hands[playerId], i) # Null}
    ELSE {}

\* room.players.filter((p) => room.gameState.hands[p.id]).
allPlayers(room) ==
    Filter(PlayerIds(room), DOMAIN room.gameState.hands)

\* What a turn decides: shouldCallRedKing, decideKeepOrDiscard (slotIndex -1
\* for a discard), decideRuleUsage, and the slot shouldMatchOwn accepts when
\* checkMatches asks a bot (-1 for none).
Decision(redKing, slotIndex, use, t, doSwitch, matchSlot) ==
    [redKing |-> redKing, slotIndex |-> slotIndex, use |-> use,
     playerAId |-> t[1], indexA |-> t[2], playerBId |-> t[3], indexB |-> t[4],
     doSwitch |-> doSwitch, matchSlot |-> matchSlot]

\* EasyBot.decideRuleUsage over every outcome of Math.random: the targets are
\* players with a hand, the slots hold a card; MediumBot and HardBot choose
\* among the same targets.  peek-own reads handIndex (indexA) of the bot,
\* peek-other targetPlayerId (playerAId) and handIndex (indexA).
decideRuleUsage(room, botId, ruleType) ==
    LET everyone == Range(allPlayers(room))
        opponents == everyone \ {botId}
    IN CASE ruleType = "peek-own" ->
                {<<botId, i, botId, i>> : i \in validSlots(room, botId)}
         [] ruleType = "peek-other" ->
                {<<o, i, o, i>> : o \in opponents, i \in BotSlots}
                    \cap {t \in everyone \X BotSlots \X everyone \X BotSlots :
                              t[2] \in validSlots(room, t[1])}
         [] OTHER ->
                {t \in everyone \X BotSlots \X everyone \X BotSlots :
                     /\ t[2] \in validSlots(room, t[1])
                     /\ t[4] \in validSlots(room, t[3])}

\* HardBot.decideRuleUsage for black-king with doSwitch: the first two
\* players with a hand, the first card of each, when the bot is one of the
\* two and gains by the switch.
hardBlackKingSwitch(room, botId) ==
    LET players == allPlayers(room)
        hands == room.gameState.hands
        slots(p) == {i \in 0..(Len(hands[p]) - 1) : At(hands[p], i) # Null}
        first(p) == CHOOSE i \in slots(p) : \A j \in slots(p) : i <= j
    IN IF Len(players) < 2 THEN {}
       ELSE IF slots(players[1]) = {} \/ slots(players[2]) = {} THEN {}
       ELSE LET p1 == players[1]
                p2 == players[2]
                card1 == At(hands[p1], first(p1))
                card2 == At(hands[p2], first(p2))
            IN IF \/ p1 = botId /\ getCardPoints(card2) < getCardPoints(card1)
                  \/ p1 # botId /\ p2 = botId
                     /\ getCardPoints(card1) < getCardPoints(card2)
               THEN {<<p1, first(p1), p2, first(p2)>>}
               ELSE {}

\* MediumBot and HardBot.shouldMatchOwn: a remembered card of the rank of the
\* top discard; checkMatches forgets a memory that is not the card in the slot.
shouldMatchOwn(room, botId, slotIndex) ==
    /\ botId \in DOMAIN room.gameState.hands
    /\ slotIndex >= 0
    /\ cardsMatchByRank(At(room.gameState.hands[botId], slotIndex), getTopDiscard(room))

\* A turn that draws and discards and leaves the rule alone.
PlainDecision(botId) == Decision(FALSE, -1, FALSE, <<botId, 0, botId, 0>>, FALSE, -1)

\* Every decision a built-in strategy can return for the bot's turn: a Red
\* King call, a keep, a discard with the rule left alone, a discard with the
\* rule used, and HardBot's black-king switch.
Decisions(room, botId) ==
    IF room.gameState = NoGame THEN {PlainDecision(botId)} ELSE
    LET gs == room.gameState
        next == IF Len(gs.deck) > 0 THEN gs.deck[Len(gs.deck)] ELSE Null
        ruleType == IF next # Null /\ canUseRule(next) THEN getRuleType(next) ELSE "none"
        none == <<botId, 0, botId, 0>>
        targets == IF ruleType = "none" THEN {} ELSE decideRuleUsage(room, botId, ruleType)
        matchSlots == {-1} \cup BotSlots
    IN {Decision(TRUE, -1, FALSE, none, FALSE, m) : m \in matchSlots}
       \cup {Decision(FALSE, i, FALSE, none, FALSE, m) :
                 i \in {-1} \cup validSlots(room, botId), m \in matchSlots}
       \cup {Decision(FALSE, -1, TRUE, t, FALSE, m) : t \in targets, m \in matchSlots}
       \cup {Decision(FALSE, -1, TRUE, t, TRUE, m) :
                 t \in (IF ruleType = "black-king"
                        THEN hardBlackKingSwitch(room, botId) ELSE {}),
                 m \in matchSlots}

\* The callbacks setTimeout holds for the room, in the order they were armed:
\* every timer is armed with the same delay, so they fire in that order.  A
\* timer keeps the id of the bot it was armed for; `game` is history, the
\* number of games the room had dealt by then (room.games), which tells the
\* game it was armed in from a later one.
Timer(room, currentId) == [currentId |-> currentId, game |-> room.games]

scheduleBotTurn(room) ==
    LET gs == room.gameState
        currentId == getCurrentTurnPlayer(room)
    IN IF gs = NoGame THEN room
       ELSE IF gs.phase \notin {"play", "redemption"} THEN room
       ELSE IF pendingBotTurn(gs) THEN room
       ELSE IF ~IsBot(currentId) THEN room
       ELSE [setPendingBotTurn(room, TRUE) EXCEPT
                !.timers = Append(@, Timer(room, currentId))]

\* A faulty botAdvanceAndEmit: in play it schedules the next bot turn and
\* leaves the turn where it is.
botAdvanceAndEmitStaying(room) ==
    IF room.gameState.phase = "redemption"
    THEN LET result == advanceRedemptionTurn(room) IN
         IF ~result.ok THEN room
         ELSE IF result.room.gameState.phase = "reveal" THEN result.room
         ELSE scheduleBotTurn(result.room)
    ELSE scheduleBotTurn(room)

botAdvanceAndEmit(room) ==
    IF room.gameState.phase = "redemption"
    THEN LET result == advanceRedemptionTurn(room) IN
         IF ~result.ok THEN room
         ELSE IF result.room.gameState.phase = "reveal" THEN result.room
         ELSE scheduleBotTurn(result.room)
    ELSE scheduleBotTurn(advanceTurn(room))

\* checkMatches: at most one callMatchOwn, on a slot shouldMatchOwn accepts.
checkMatches(room, botId, slotIndex) ==
    IF room.gameState = NoGame THEN room
    ELSE IF getTopDiscard(room) = Null THEN room
    ELSE IF botId \notin DOMAIN room.gameState.hands THEN room
    ELSE IF shouldMatchOwn(room, botId, slotIndex)
         THEN callMatchOwn(room, botId, slotIndex).room
    ELSE room

\* checkBotMatches over the players from the i-th on: every CPU player but
\* the protected Red King caller.
RECURSIVE checkBotMatchesFrom(_, _, _)
checkBotMatchesFrom(room, i, slotIndex) ==
    IF i > Len(room.players) THEN room
    ELSE LET id == room.players[i].id IN
         IF ~IsBot(id) THEN checkBotMatchesFrom(room, i + 1, slotIndex)
         ELSE IF room.gameState.phase = "redemption" /\ room.gameState.redKingCaller = id
              THEN checkBotMatchesFrom(room, i + 1, slotIndex)
         ELSE checkBotMatchesFrom(checkMatches(room, id, slotIndex), i + 1, slotIndex)

checkBotMatches(room, slotIndex) ==
    IF room.gameState = NoGame THEN room ELSE checkBotMatchesFrom(room, 1, slotIndex)

\* _executeRule: peek-own, peek-other and the black-king peek write nothing;
\* blind-switch and the black-king switch call blindSwitch with the decision's
\* targets as they are.
executeRule(room, botId, ruleType, d) ==
    LET acted ==
            IF ~d.use THEN room
            ELSE IF ruleType = "blind-switch"
                 THEN blindSwitch(room, d.playerAId, d.indexA, d.playerBId, d.indexB).room
            ELSE IF ruleType = "black-king"
                    /\ blackKingPeek(room, d.playerAId, d.indexA, d.playerBId, d.indexB)
                    /\ d.doSwitch
                 THEN blindSwitch(room, d.playerAId, d.indexA, d.playerBId, d.indexB).room
            ELSE room
    IN botAdvanceAndEmit(checkBotMatches(acted, d.matchSlot))

\* executeTurn of the bot `botId` with the decisions d of its strategy.
executeTurn(room, botId, d) ==
    IF room.gameState = NoGame THEN room
    ELSE LET cleared == IF pendingBotTurn(room.gameState)
                        THEN setPendingBotTurn(room, FALSE) ELSE room
             phase == room.gameState.phase
         IN
         IF phase # "play" /\ phase # "redemption" THEN cleared
         ELSE IF getCurrentTurnPlayer(cleared) # botId THEN cleared
         ELSE IF phase = "play" /\ cleared.gameState.drawnCard = Null /\ d.redKing
                 /\ callRedKing(cleared, botId).ok
              THEN scheduleBotTurn(callRedKing(cleared, botId).room)
         ELSE LET drawn == drawCard(cleared, botId) IN
              IF ~drawn.ok THEN botAdvanceAndEmit(cleared)
              ELSE IF d.slotIndex # -1 /\ keepCard(drawn.room, botId, d.slotIndex).ok
                   THEN botAdvanceAndEmit(
                            checkBotMatches(keepCard(drawn.room, botId, d.slotIndex).room,
                                            d.matchSlot))
              ELSE LET discarded == discardDrawnCard(drawn.room, botId)
                       card == drawn.room.gameState.drawnCard
                   IN IF ~discarded.ok THEN botAdvanceAndEmit(drawn.room)
                      ELSE IF canUseRule(card) /\ getRuleType(card) # "none"
                           THEN executeRule(discarded.room, botId, getRuleType(card), d)
                      ELSE botAdvanceAndEmit(checkBotMatches(discarded.room, d.matchSlot))

\* The setTimeout callback of scheduleBotTurn, armed for timer.currentId.
onBotTimer(room, timer, d) ==
    IF room.gameState = NoGame THEN room
    ELSE IF getCurrentTurnPlayer(room) # timer.currentId
         THEN setPendingBotTurn(room, FALSE)
    ELSE executeTurn(room, timer.currentId, d)

\* peekPhase and executeBotPeekPhase: the bot signals peek-done at once.
peekPhase(room, botId) ==
    IF botId \notin DOMAIN room.gameState.hands THEN room
    ELSE [room EXCEPT !.gameState.peekDone = @ \cup {botId}]

\* ------------------------------------------------- the handlers' bot hooks
\* add-cpu-player: a CPU player joins the lobby as one more player.
addCpuPlayer(room, botId) ==
    [room EXCEPT !.players = Append(@, [id |-> botId, name |-> botId, isHost |-> FALSE])]

\* executeBotPeekPhase for the players from the i-th on.
RECURSIVE botsPeekFrom(_, _)
botsPeekFrom(room, i) ==
    IF i > Len(room.players) THEN room
    ELSE IF IsBot(room.players[i].id)
         THEN botsPeekFrom(peekPhase(room, room.players[i].id), i + 1)
    ELSE botsPeekFrom(room, i + 1)

\* start-game in a room with CPU players: the deal, then every bot's peek
\* phase.  room.games counts the deals (history).
onStartGameWithBots(room, socketId, k) ==
    LET dealt == onStartGame(room, socketId, k) IN
    IF dealt = room THEN room
    ELSE checkPeekComplete(botsPeekFrom([dealt EXCEPT !.games = @ + 1], 1))

\* The hook of every handler: after an event that transfers the turn (the
\* turn player or the phase has changed), scheduleBotTurn.
afterCommand(room, new) ==
    IF new.gameState = NoGame THEN new
    ELSE IF getCurrentTurnPlayer(new) # getCurrentTurnPlayer(room)
            \/ new.gameState.phase # room.gameState.phase
         THEN scheduleBotTurn(new)
    ELSE new

\* ---------------------------------------------------------- games with bots
BotSteps == 4

\* The lobbies with CPU players: a host and one bot, and a host, a second
\* player and two bots.
BotLobbies == {<<1, 201>>, <<1, 2, 201, 202>>}

Humans(ids) == {id \in Range(ids) : ~IsBot(id)}

RECURSIVE SeatedFrom(_, _, _)
SeatedFrom(reg, ids, i) ==
    IF i > Len(ids) THEN reg
    ELSE IF IsBot(ids[i])
         THEN SeatedFrom([reg EXCEPT !.rooms[1] = addCpuPlayer(@, ids[i])], ids, i + 1)
    ELSE SeatedFrom(joinRoom(reg, 1, ids[i], PlayerName(ids[i])), ids, i + 1)

\* The registry after host-game by 1 and, in the order of ids, join-game and
\* add-cpu-player; no timer is armed and no game was dealt.
BotRegistry(ids) ==
    LET hosted == createRoom([rooms |-> <<>>, playerRoomMap |-> <<>>], 1, 1, PlayerName(1))
        lobby == [hosted EXCEPT !.rooms[1] = [timers |-> <<>>, games |-> 0] @@ @]
    IN SeatedFrom(lobby, ids, 2)

\* The head timer fires with the decisions d.
fireTimer(room, d) ==
    onBotTimer([room EXCEPT !.timers = Tail(@)], Head(room.timers), d)

\* One whole turn of the current turn player: a human's draw-card,
\* discard-card and skip-rule, a bot's timer.
BotGameTurn(room) ==
    LET p == getCurrentTurnPlayer(room) IN
    IF IsBot(p)
    THEN IF room.timers = <<>> THEN room ELSE fireTimer(room, PlainDecision(p))
    ELSE afterCommand(room, PlayTurn(room))

\* n whole turns, or as many as change the room.
RECURSIVE BotGameTurns(_, _)
BotGameTurns(room, n) ==
    IF n = 0 \/ BotGameTurn(room) = room THEN room
    ELSE BotGameTurns(BotGameTurn(room), n - 1)

\* The game of a lobby after start-game, every human's peek-done and n whole
\* turns.
RECURSIVE PeekDoneBy(_, _)
PeekDoneBy(room, ids) ==
    IF ids = <<>> THEN room
    ELSE IF IsBot(Head(ids)) THEN PeekDoneBy(room, Tail(ids))
    ELSE PeekDoneBy(afterCommand(room, onPeekDone(room, Head(ids))), Tail(ids))

BotTable(ids, n) ==
    LET lobby == BotRegistry(ids).rooms[1]
    IN BotGameTurns(PeekDoneBy(onStartGameWithBots(lobby, 1, 1), ids), n)

\* The whole turns played before a behaviour starts: none; one; four, after
\* which the bot of the first lobby draws a black King; five, after which
\* the card to draw is a Queen; and as many as empty the deck of the first
\* lobby.
BotTurns == {0, 1, 4, 5, DeckSize - 2 * HandSize}

BotInit ==
    /\ \E ids \in BotLobbies :
           /\ \/ rooms = BotRegistry(ids).rooms
              \/ \E n \in BotTurns :
                     rooms = [BotRegistry(ids).rooms EXCEPT ![1] = BotTable(ids, n)]
           /\ playerRoomMap = BotRegistry(ids).playerRoomMap
           /\ sockets = [c \in Conns |-> IF c \in Humans(ids) THEN "open" ELSE "new"]
    /\ budget = BotSteps

\* A command of a human in a room with bots: the handler, then its hook.
BotPlay(c, new) == Play(Sender(c), afterCommand(Sender(c), new))

BotStartGame(c) ==
    /\ CanSend(c)
    /\ \E k \in Shuffles :
           Play(Sender(c), afterCommand(Sender(c), onStartGameWithBots(Sender(c), c, k)))

BotEndGame(c) == CanSend(c) /\ BotPlay(c, onEndGame(Sender(c), c))

BotPeekDone(c) == CanSend(c) /\ BotPlay(c, onPeekDone(Sender(c), c))

BotLeaveRoom(c) ==
    /\ CanSend(c)
    /\ LET left == onLeave(Reg, c)
           code == Sender(c).code
       IN Commit(IF code \in DOMAIN left.rooms
                 THEN [left EXCEPT !.rooms[code] = afterCommand(Sender(c), @)]
                 ELSE left)
    /\ UNCHANGED sockets

BotCallRedKing(c) == CanSend(c) /\ BotPlay(c, onCallRedKing(Sender(c), c))

BotDrawCard(c) == CanSend(c) /\ BotPlay(c, onDrawCard(Sender(c), c))

BotKeepCard(c) ==
    /\ CanSend(c)
    /\ \E handIndex \in BotSlots : BotPlay(c, onKeepCard(Sender(c), c, handIndex))

BotDiscardCard(c) == CanSend(c) /\ BotPlay(c, onDiscardCard(Sender(c), c))

BotSkipRule(c) == CanSend(c) /\ BotPlay(c, onSkipRule(Sender(c), c))

\* The timer at the head of a room's queue fires.
BotTimer(code) ==
    /\ budget > 0
    /\ rooms[code].timers # <<>>
    /\ \E d \in Decisions(rooms[code], Head(rooms[code].timers).currentId) :
           rooms' = [rooms EXCEPT ![code] = fireTimer(@, d)]
    /\ budget' = budget - 1
    /\ UNCHANGED <<playerRoomMap, sockets>>

BotNext ==
    \/ \E c \in Conns :
           \/ BotStartGame(c)
           \/ BotEndGame(c)
           \/ BotPeekDone(c)
           \/ BotLeaveRoom(c)
           \/ BotCallRedKing(c)
           \/ BotDrawCard(c)
           \/ BotKeepCard(c)
           \/ BotDiscardCard(c)
           \/ BotSkipRule(c)
    \/ \E code \in DOMAIN rooms : BotTimer(code)

SpecBot == BotInit /\ [][BotNext]_vars

\* ------------------------------------------------------------ the bot timer
\* C32: a room has at most one bot-turn timer armed, whatever the bots'
\* turns, the humans' commands, end-game and a later start-game did before;
\* and pendingBotTurn is set only while a timer is armed.
C32_OneTimer ==
    \A code \in DOMAIN rooms :
        /\ Len(rooms[code].timers) <= 1
        /\ rooms[code].gameState # NoGame /\ pendingBotTurn(rooms[code].gameState)
               => rooms[code].timers # <<>>

\* A timer is stale when the game it was armed in has ended, when its bot has
\* left the room, or when its bot no longer holds the turn.
StaleTimer(room, timer) ==
    \/ room.gameState = NoGame
    \/ timer.game # room.games
    \/ timer.currentId \notin Range(PlayerIds(room))
    \/ getCurrentTurnPlayer(room) # timer.currentId

\* The deck, the hands, the discard pile, the drawn card, the turn index and
\* the phase of a room.
Table6(room) ==
    LET gs == room.gameState IN
    IF gs = NoGame THEN <<>>
    ELSE <<gs.deck, gs.hands, gs.discardPile, gs.drawnCard, gs.turnIndex, gs.phase>>

\* C33: a stale timer that fires changes no deck, hand, discard pile, drawn
\* card, turn index or phase.
C33_StaleTimerNoOp ==
    \A code \in DOMAIN rooms :
        LET room == rooms[code] IN
        room.timers # <<>> /\ StaleTimer(room, Head(room.timers)) =>
            \A d \in Decisions(room, Head(room.timers).currentId) :
                Table6(fireTimer(room, d)) = Table6(room)

\* The room waits for a bot: a bot holds the turn in play or redemption.
BotHoldsTurn(room) ==
    /\ room.gameState # NoGame
    /\ isPlayablePhase(room)
    /\ IsBot(getCurrentTurnPlayer(room))

\* C34: whenever a bot holds the turn in play or redemption, a bot timer is
\* armed, so that the bot's turn is run when the timers fire: the game never
\* waits for a bot with no timer pending.
C34_BotHandOff ==
    \A code \in DOMAIN rooms : BotHoldsTurn(rooms[code]) => rooms[code].timers # <<>>

\* ------------------------------------------------- bots and the Red King
\* The rule a bot's turn uses with the decisions d names the player: the
\* card it draws has a rule, d uses it, and the player is one of its targets.
RuleTargets(room, d, playerId) ==
    LET gs == room.gameState
        next == IF Len(gs.deck) > 0 THEN gs.deck[Len(gs.deck)] ELSE Null
    IN /\ gs.drawnCard = Null
       /\ d.slotIndex = -1
       /\ d.use
       /\ getRuleType(next) \in {"peek-other", "blind-switch", "black-king"}
       /\ playerId \in {d.playerAId, d.playerBId}

\* C35: in redemption no turn of a bot, whatever its strategy decides,
\* targets a slot of the protected Red King caller or changes the caller's
\* hand.
C35_BotsSpareCaller ==
    \A code \in DOMAIN rooms :
        LET room == rooms[code]
            botId == getCurrentTurnPlayer(room)
            caller == room.gameState.redKingCaller
        IN BotHoldsTurn(room) /\ room.gameState.phase = "redemption"
           /\ caller \in DOMAIN room.gameState.hands =>
               \A d \in Decisions(room, botId) :
                   /\ ~RuleTargets(room, d, caller)
                   /\ executeTurn(room, botId, d).gameState.hands[caller]
                          = room.gameState.hands[caller]

\* ------------------------------------------------------- a bot's whole turn
\* The turn has moved on by one: the next turn index in play, the next
\* redemption index (or the reveal after the last one) in redemption.
AdvancedOnce(room, new) ==
    LET gs == room.gameState
        ngs == new.gameState
    IN IF gs.phase = "play"
       THEN /\ ngs.phase = "play"
            /\ ngs.turnIndex = nextTurnIndex(gs.turnIndex, Len(gs.turnOrder))
       ELSE /\ ngs.turnIndex = gs.turnIndex
            /\ ngs.redemptionIndex = gs.redemptionIndex + 1
            /\ ngs.phase = IF ngs.redemptionIndex >= Len(gs.redemptionOrder)
                           THEN "reveal" ELSE "redemption"

\* The bot has called Red King: the game is in redemption with the bot as
\* the caller and the turn index where it was.
CalledRedKing(room, new, botId) ==
    /\ room.gameState.phase = "play"
    /\ new.gameState.phase = "redemption"
    /\ new.gameState.redKingCaller = botId
    /\ new.gameState.redemptionIndex = 0
    /\ new.gameState.turnIndex = room.gameState.turnIndex

\* C40: an executeTurn that starts with the bot holding the turn in play or
\* redemption ends with no drawn card left and with exactly one turn advance
\* or a Red King call, whatever the strategy decides and whatever the deck
\* holds.
C40_BotTurnCompletes ==
    \A code \in DOMAIN rooms :
        LET room == rooms[code]
            botId == getCurrentTurnPlayer(room)
        IN BotHoldsTurn(room) =>
               \A d \in Decisions(room, botId) :
                   LET new == executeTurn(room, botId, d) IN
                   /\ new.gameState.drawnCard = Null
                   /\ new.gameState.drawnBy = Null
                   /\ AdvancedOnce(room, new) # CalledRedKing(room, new, botId)

\* A bot holds the turn in play with a rule card to draw, and one of its
\* decisions keeps the card, one uses the rule and one calls Red King.
C40_Witness ==
    \E code \in DOMAIN rooms :
        LET room == rooms[code]
            botId == getCurrentTurnPlayer(room)
        IN /\ BotHoldsTurn(room)
           /\ room.gameState.phase = "play"
           /\ room.timers # <<>>
           /\ \E d \in Decisions(room, botId) :
                  d.slotIndex # -1 /\ AdvancedOnce(room, executeTurn(room, botId, d))
           /\ \E d \in Decisions(room, botId) :
                  d.use /\ d.doSwitch /\ AdvancedOnce(room, executeTurn(room, botId, d))
           /\ \E d \in Decisions(room, botId) :
                  d.redKing /\ CalledRedKing(room, executeTurn(room, botId, d), botId)

====
